---- MODULE Spec2Model ----
(***************************************************************************)
(* Model of the retail mock-data generator of EDP-IO                       *)
(* (src/ingestion/mock_data.py, RetailMockDataGenerator) and of its log    *)
(* analyzer (src/observability/log_analyzer.py, LogAnalyzer).              *)
(*                                                                         *)
(* The generator draws from two process-wide random streams: Python's      *)
(* module-level `random` and the stream shared by every Faker object       *)
(* (seeded through Faker.seed).  Both are module globals, so they are      *)
(* single variables of the model; the two generator instances only own     *)
(* their seed and their customer / product caches.  Relative dates of      *)
(* Faker ("-5y", "now") are resolved against the wall clock `now`.         *)
(*                                                                         *)
(* Decimal values are integers counted in units of 10^-3; dates are day    *)
(* numbers and datetimes are tick numbers (DayLen ticks per date).         *)
(***************************************************************************)
EXTENDS Integers, Sequences, FiniteSets, TLC

VARIABLES
    random_state,   \* state of the module-level `random` generator
    faker_state,    \* state of the random source shared by all Faker objects
    now,            \* wall clock, in ticks
    gen,            \* gen[g]: fields of generator instance g
    ret,            \* ret[g]: outcome of the latest call made on instance g
    last,           \* the latest call: instance, operation, arguments, outcome
    steps,          \* number of generator calls made so far
    held,           \* held[g]: the order items the latest successful order
                    \* generation on instance g returned, as its caller reads them
    pc,             \* the statement of generate_all the running call is at
    frame,          \* the running generate_all call: instance, config, locals
    settings,       \* the process settings read by LogAnalyzer
    mock_responses, \* the module-level MOCK_RESPONSES objects
    analysis,       \* the latest LogAnalyzer.analyze call and what it returned
    _metrics_store, \* the module-level singleton of llm_metrics: None or a store
    stores,         \* stores[s]: fields of the s-th LLMMetricsStore constructed
    disk,           \* content of the file data/llm_metrics.json
    thread,         \* thread[t]: where thread t is in its call, and its locals
    returned,       \* the stores get_metrics_store has returned so far
    recorded,       \* the <<store, call_id>> of every add that has returned
    tables,         \* tables[name]: the Delta table at bronze_path/name
    ingestion,      \* fields of the SQLServerIngestion object
    database,       \* dbo.Orders and dbo.OrderItems of the e-commerce database
    batches,        \* number of BronzeWriter.write calls made, the last batch id
    outcome,        \* the latest ingestion or write call and how it ended
    _correlation_id, \* the ContextVar of utils.logging: None or an id
    contexts,       \* the PipelineContext objects entered and not yet left
    entries         \* the log entries emitted, in order

\* the state of the generators, of a running generate_all, of the analyzer
genvars == <<random_state, faker_state, now, gen, ret, last, steps, held>>
allvars == <<pc, frame>>
logvars == <<settings, mock_responses, analysis>>
storevars == <<_metrics_store, stores, disk, thread, returned, recorded>>
ingestvars == <<tables, ingestion, database, batches, outcome>>
ctxvars == <<_correlation_id, contexts, entries>>

\* the state outside the generators and the analyzer
sidevars == <<storevars, ingestvars, ctxvars>>

vars == <<genvars, allvars, logvars, sidevars>>

(***************************************************************************)
(* Bounds of the model.                                                    *)
(***************************************************************************)
MaxSteps == 2       \* generator calls in one behaviour
MaxCount == 2       \* largest count passed to generate_customers / _products
MaxStores == 1      \* largest count passed to generate_stores
MaxOrders == 2      \* largest count passed to generate_orders
MaxNow == 1         \* ticks the wall clock may advance
RngMod == 32        \* number of states of the abstract random generators
FakerRange == 3     \* number of distinct values of one Faker text provider

Instances == {1, 2}
DefaultSeed == 42
Seeds == {42, 123}
Counts == -1 .. MaxCount
StoreCounts == -1 .. MaxStores
OrderCounts == {-1, 0, MaxOrders}

(***************************************************************************)
(* The random generators: a deterministic stream of period RngMod.  The    *)
(* state is the position in the stream; seeding sets the position, a draw  *)
(* moves it on by one and the draw's value is a function of the position   *)
(* reached.                                                                *)
(***************************************************************************)
SeedState(seed) == seed % RngMod

NextState(s) == (s + 1) % RngMod

\* the state after k draws
Adv(s, k) == (s + k) % RngMod

\* the raw number produced at position s, in 0 .. RngMod-1
Raw(s) == (13 * s + 5) % RngMod

\* value in 0 .. n-1 of the draw that left the generator in state s
Val(s, n) == (Raw(s) * n) \div RngMod

\* random.choice(seq)
Choice(s, seq) == seq[Val(s, Len(seq)) + 1]

RECURSIVE PickWeighted(_, _, _, _)
PickWeighted(u, seq, weights, k) ==
    IF k >= Len(seq) \/ u < weights[k] THEN seq[k]
    ELSE PickWeighted(u - weights[k], seq, weights, k + 1)

\* random.choices(seq, weights=weights)[0], weights in percent
Choices(s, seq, weights) == PickWeighted(Val(s, 100), seq, weights, 1)

\* random.random() > p, p in percent
RandomAbove(s, p) == Val(s, 100) > p

\* fake.date_between / fake.date_time_between: uniform in lo .. hi
Between(s, lo, hi) == lo + Val(s, hi - lo + 1)

\* a Faker text provider (first_name, city, word, ...)
FakerText(s) == Val(s, FakerRange)

(***************************************************************************)
(* Durations of Faker's relative dates ("-30d", "-6m", "-1y", ...), in     *)
(* dates of 30 days, and the number of ticks in one date.                  *)
(***************************************************************************)
DayLen == 2
D30 == 1
M6 == 6
Y1 == 12
Y2 == 24
Y3 == 36
Y5 == 60
Y10 == 120

Today(t) == t \div DayLen

(***************************************************************************)
(* Identifiers: prefix + str(i).zfill(width).                              *)
(***************************************************************************)
RECURSIVE Digits(_)
Digits(n) == IF n < 10 THEN <<n>> ELSE Append(Digits(n \div 10), n % 10)

RECURSIVE Zfill(_, _)
Zfill(ds, width) == IF Len(ds) >= width THEN ds ELSE Zfill(<<0>> \o ds, width)

MakeId(prefix, n, width) == <<prefix>> \o Zfill(Digits(n), width)

\* variant of CustomerId: the loop index is used as it is, so numbering starts at 0
CustomerId_ZeroBased(n) == MakeId("CUST-", n - 1, 8)

CustomerId(n) == MakeId("CUST-", n, 8)
ProductId(n) == MakeId("SKU-", n, 6)
StoreId(n) == MakeId("STORE-", n, 4)
OrderId(n) == MakeId("ORD-", n, 10)
OrderItemId(order_id, j) == order_id \o MakeId("-", j, 3)

(***************************************************************************)
(* Decimal arithmetic (units of 10^-3).  The percentages of the code are    *)
(* multiples of 5 and are applied as twentieths, which keeps the products  *)
(* within TLC's 32-bit integers.                                           *)
(***************************************************************************)
\* num / den rounded to the nearest integer, ties to even (num >= 0, den > 0)
RoundHalfEven(num, den) ==
    LET q == num \div den
        r == num % den
    IN  IF 2 * r < den THEN q
        ELSE IF 2 * r > den THEN q + 1
        ELSE IF q % 2 = 0 THEN q ELSE q + 1

Cent == 10

Twentieths(percent) == percent \div 5

\* (num / den).quantize(Decimal("0.01"))
Quantize(num, den) == RoundHalfEven(num, den * Cent) * Cent

(***************************************************************************)
(* Dictionaries keep insertion order: a sequence of <<key, value>> pairs.  *)
(***************************************************************************)
DictKeys(d) == [k \in 1 .. Len(d) |-> d[k][1]]

DictHas(d, key) == \E k \in 1 .. Len(d) : d[k][1] = key

DictGet(d, key) == d[CHOOSE k \in 1 .. Len(d) : d[k][1] = key][2]

\* variant of DictSet: d.setdefault(key, value), the first value is kept
DictSet_KeepsFirst(d, key, value) ==
    IF DictHas(d, key) THEN d ELSE Append(d, <<key, value>>)

\* d[key] = value
DictSet(d, key, value) ==
    IF DictHas(d, key)
    THEN [k \in 1 .. Len(d) |-> IF d[k][1] = key THEN <<key, value>> ELSE d[k]]
    ELSE Append(d, <<key, value>>)

RECURSIVE DictSetAll(_, _, _)
\* the loop's cache writes: d[rec[field]] = rec for each rec of recs, in order
DictSetAll(d, recs, field) ==
    IF recs = <<>> THEN d
    ELSE DictSetAll(DictSet(d, Head(recs)[field], Head(recs)), Tail(recs), field)

(***************************************************************************)
(* Class tables of RetailMockDataGenerator.                                *)
(***************************************************************************)
CATEGORIES == <<
    [name |-> "Electronics", price_min |-> 9999, price_max |-> 999999, margin |-> 25],
    [name |-> "Fashion", price_min |-> 2999, price_max |-> 79999, margin |-> 45],
    [name |-> "Home & Garden", price_min |-> 1999, price_max |-> 299999, margin |-> 35],
    [name |-> "Beauty", price_min |-> 1499, price_max |-> 49999, margin |-> 55],
    [name |-> "Grocery", price_min |-> 299, price_max |-> 19999, margin |-> 20] >>

NumSubcategories == 5
NumBrands == 15

CUSTOMER_SEGMENTS == <<"BRONZE", "SILVER", "GOLD", "PLATINUM">>
SEGMENT_WEIGHTS == <<50, 30, 15, 5>>

ORDER_STATUSES == <<"PENDING", "CONFIRMED", "SHIPPED", "DELIVERED", "CANCELLED", "RETURNED">>
STATUS_WEIGHTS == <<5, 10, 15, 60, 5, 5>>

PAYMENT_METHODS == <<"CREDIT_CARD", "DEBIT_CARD", "PIX", "BOLETO", "WALLET">>
PAYMENT_WEIGHTS == <<35, 15, 30, 10, 10>>

STORE_TYPES == <<"FLAGSHIP", "STANDARD", "OUTLET", "POPUP", "WAREHOUSE">>
STORE_TYPE_WEIGHTS == <<5, 70, 15, 5, 5>>

REGIONS == <<"Norte", "Nordeste", "Centro-Oeste", "Sudeste", "Sul">>
REGION_WEIGHTS == <<8, 27, 8, 42, 15>>
BRAZILIAN_REGIONS == [r \in {"Norte", "Nordeste", "Centro-Oeste", "Sudeste", "Sul"} |->
    CASE r = "Norte" -> <<"AC", "AP", "AM", "PA", "RO", "RR", "TO">>
      [] r = "Nordeste" -> <<"AL", "BA", "CE", "MA", "PB", "PE", "PI", "RN", "SE">>
      [] r = "Centro-Oeste" -> <<"DF", "GO", "MT", "MS">>
      [] r = "Sudeste" -> <<"ES", "MG", "RJ", "SP">>
      [] r = "Sul" -> <<"PR", "RS", "SC">>]

(***************************************************************************)
(* generate_customers: one pass of the loop body, then the loop.           *)
(* r, f are the states of `random` and of Faker before the pass; a pass    *)
(* makes CustomerFakerDraws Faker draws and CustomerRandomDraws random     *)
(* draws.                                                                  *)
(***************************************************************************)
CustomerFakerDraws == 11
CustomerRandomDraws == 2

Customer(i, r, f, t) ==
    LET registration_date == Between(Adv(f, 1), Today(t) - Y5, Today(t) - D30)
        created_at == registration_date * DayLen + Val(Adv(f, 2), DayLen)
        updated_at == Between(Adv(f, 3), created_at, t)
    IN  [customer_id |-> CustomerId(i + 1),
         first_name |-> FakerText(Adv(f, 4)),
         last_name |-> FakerText(Adv(f, 5)),
         email |-> FakerText(Adv(f, 6)),
         phone |-> FakerText(Adv(f, 7)),
         address_line1 |-> FakerText(Adv(f, 8)),
         city |-> FakerText(Adv(f, 9)),
         state |-> FakerText(Adv(f, 10)),
         postal_code |-> FakerText(Adv(f, 11)),
         country_code |-> "BR",
         customer_segment |-> Choices(Adv(r, 1), CUSTOMER_SEGMENTS, SEGMENT_WEIGHTS),
         registration_date |-> registration_date,
         is_active |-> RandomAbove(Adv(r, 2), 5),
         created_at |-> created_at,
         updated_at |-> updated_at]

RECURSIVE CustomersLoop(_, _, _, _, _, _)
CustomersLoop(i, count, r, f, t, acc) ==
    IF i >= count THEN [out |-> acc, r |-> r, f |-> f]
    ELSE CustomersLoop(i + 1, count, Adv(r, CustomerRandomDraws),
                       Adv(f, CustomerFakerDraws), t,
                       Append(acc, Customer(i, r, f, t)))

\* variant of GenCustomers: the loop starts at 1, one record short
GenCustomers_OneShort(count, r, f, t) == CustomersLoop(1, count, r, f, t, <<>>)

\* the records returned, and the streams after the call
GenCustomers(count, r, f, t) == CustomersLoop(0, count, r, f, t, <<>>)

(***************************************************************************)
(* generate_products.                                                      *)
(***************************************************************************)
ProductFakerDraws == 3
ProductRandomDraws == 7

\* variant of UnitCost: the margin is added to the price instead of taken off
UnitCost_MarkUp(price, margin) == RoundHalfEven(price * (100 + margin), 100)

\* round(unit_price * (1 - margin), 2), price in cents and margin in percent
UnitCost(price, margin) == RoundHalfEven(price * (100 - margin), 100)

Product(i, r, f, t) ==
    LET category_index == Val(Adv(r, 1), Len(CATEGORIES)) + 1
        category_info == CATEGORIES[category_index]
        subcategory == Val(Adv(r, 2), NumSubcategories) + 1
        unit_price == Between(Adv(r, 3), category_info.price_min, category_info.price_max)
        unit_cost == UnitCost(unit_price, category_info.margin)
        created_at == Between(Adv(f, 1), t - Y3 * DayLen, t - M6 * DayLen)
        updated_at == Between(Adv(f, 2), created_at, t)
    IN  [product_id |-> ProductId(i + 1),
         product_name |-> <<Val(Adv(r, 4), NumBrands) + 1, subcategory, FakerText(Adv(f, 3))>>,
         category_id |-> MakeId("CAT-", category_index, 3),
         category_name |-> category_info.name,
         subcategory_name |-> subcategory,
         brand |-> Val(Adv(r, 5), NumBrands) + 1,
         unit_price |-> unit_price * Cent,
         unit_cost |-> unit_cost * Cent,
         stock_quantity |-> Between(Adv(r, 6), 0, 1000),
         is_active |-> RandomAbove(Adv(r, 7), 10),
         created_at |-> created_at,
         updated_at |-> updated_at]

RECURSIVE ProductsLoop(_, _, _, _, _, _)
ProductsLoop(i, count, r, f, t, acc) ==
    IF i >= count THEN [out |-> acc, r |-> r, f |-> f]
    ELSE ProductsLoop(i + 1, count, Adv(r, ProductRandomDraws),
                      Adv(f, ProductFakerDraws), t,
                      Append(acc, Product(i, r, f, t)))

GenProducts(count, r, f, t) == ProductsLoop(0, count, r, f, t, <<>>)

(***************************************************************************)
(* generate_stores.                                                        *)
(***************************************************************************)
StoreFakerDraws == 6
StoreRandomDraws == 4

Store(i, r, f, t) ==
    LET region == Choices(Adv(r, 1), REGIONS, REGION_WEIGHTS)
        state == Choice(Adv(r, 2), BRAZILIAN_REGIONS[region])
        open_date == Between(Adv(f, 1), Today(t) - Y10, Today(t) - Y1)
        created_at == open_date * DayLen + Val(Adv(f, 2), DayLen)
        updated_at == Between(Adv(f, 3), created_at, t)
    IN  [store_id |-> StoreId(i + 1),
         store_name |-> <<FakerText(Adv(f, 4)), state>>,
         store_type |-> Choices(Adv(r, 3), STORE_TYPES, STORE_TYPE_WEIGHTS),
         region |-> region,
         city |-> FakerText(Adv(f, 5)),
         state |-> state,
         manager_name |-> FakerText(Adv(f, 6)),
         open_date |-> open_date,
         is_active |-> RandomAbove(Adv(r, 4), 5),
         created_at |-> created_at,
         updated_at |-> updated_at]

RECURSIVE StoresLoop(_, _, _, _, _, _)
StoresLoop(i, count, r, f, t, acc) ==
    IF i >= count THEN [out |-> acc, r |-> r, f |-> f]
    ELSE StoresLoop(i + 1, count, Adv(r, StoreRandomDraws),
                    Adv(f, StoreFakerDraws), t,
                    Append(acc, Store(i, r, f, t)))

GenStores(count, r, f, t) == StoresLoop(0, count, r, f, t, <<>>)

(***************************************************************************)
(* generate_orders.                                                        *)
(***************************************************************************)
\* random.gauss(3, 1.5), in halves: -2.0 .. 12.0
Gauss(s) == Between(s, -4, 24)

\* int(x) for x given in halves: truncation towards zero
IntOfHalves(h) == IF h >= 0 THEN h \div 2 ELSE -((-h) \div 2)

Max(a, b) == IF a >= b THEN a ELSE b
Min(a, b) == IF a <= b THEN a ELSE b

\* variant of NumItems: the cap of line 347 is left out
NumItems_NoCap(s) == Max(1, IntOfHalves(Gauss(s)))

\* num_items = min(max(1, int(random.gauss(3, 1.5))), 10)
NumItems(s) == Min(Max(1, IntOfHalves(Gauss(s))), 10)

ItemRandomDraws == 4

\* one pass of the inner loop; r is the state of `random` before the pass
OrderItem(order_id, order_date, j, r, product_ids, product_cache) ==
    LET product_id == Choice(Adv(r, 1), product_ids)
        quantity == Between(Adv(r, 2), 1, 5)
        \* the default of product.get is evaluated on every pass
        fallback == Between(Adv(r, 3), 10 * 100 * Cent, 500 * 100 * Cent)
        unit_price == IF DictHas(product_cache, product_id)
                      THEN DictGet(product_cache, product_id).unit_price
                      ELSE fallback
        discount_percent == Choice(Adv(r, 4), <<0, 0, 0, 5, 10, 15, 20>>)
        line_total == Quantize(quantity * unit_price * Twentieths(100 - discount_percent), 20)
    IN  [order_item_id |-> OrderItemId(order_id, j + 1),
         order_id |-> order_id,
         product_id |-> product_id,
         quantity |-> quantity,
         unit_price |-> unit_price,
         discount_percent |-> discount_percent,
         line_total |-> line_total,
         created_at |-> order_date]

RECURSIVE ItemsLoop(_, _, _, _, _, _, _, _, _)
\* returns the items of one order, their subtotal and the random state reached
ItemsLoop(order_id, order_date, j, num_items, r, product_ids, product_cache, items, subtotal) ==
    IF j >= num_items THEN [items |-> items, subtotal |-> subtotal, r |-> r]
    ELSE LET item == OrderItem(order_id, order_date, j, r, product_ids, product_cache)
         IN  ItemsLoop(order_id, order_date, j + 1, num_items, Adv(r, ItemRandomDraws),
                       product_ids, product_cache, Append(items, item),
                       subtotal + item.line_total)

OrderFakerDraws == 3

\* variant of TotalAmount: the shipping cost is left out of the total
TotalAmount_NoShipping(subtotal, discount_amount, shipping_cost) ==
    subtotal - discount_amount

\* total_amount = subtotal - discount_amount + shipping_cost
TotalAmount(subtotal, discount_amount, shipping_cost) ==
    subtotal - discount_amount + shipping_cost

\* one pass of the outer loop: the order, its items and the streams reached
Order(i, r, f, t, customer_ids, product_ids, product_cache) ==
    LET order_id == OrderId(i + 1)
        customer_id == Choice(Adv(r, 1), customer_ids)
        order_date == Between(Adv(f, 1), t - Y2 * DayLen, t)
        num_items == NumItems(Adv(r, 2))
        lines == ItemsLoop(order_id, order_date, 0, num_items, Adv(r, 2),
                           product_ids, product_cache, <<>>, 0)
        r2 == lines.r
        subtotal == lines.subtotal
        discount_amount == Quantize(subtotal * Twentieths(Choice(Adv(r2, 1), <<0, 0, 5, 10>>)), 20)
        shipping_cost == Choice(Adv(r2, 2), <<0, 999, 1499, 1999, 2999>>) * Cent
        total_amount == TotalAmount(subtotal, discount_amount, shipping_cost)
    IN  [order |->
            [order_id |-> order_id,
             customer_id |-> customer_id,
             order_date |-> order_date,
             order_status |-> Choices(Adv(r2, 3), ORDER_STATUSES, STATUS_WEIGHTS),
             shipping_address |-> FakerText(Adv(f, 2)),
             payment_method |-> Choices(Adv(r2, 4), PAYMENT_METHODS, PAYMENT_WEIGHTS),
             subtotal |-> subtotal,
             discount_amount |-> discount_amount,
             shipping_cost |-> shipping_cost,
             total_amount |-> total_amount,
             created_at |-> order_date,
             updated_at |-> Between(Adv(f, 3), order_date, t)],
         items |-> lines.items,
         r |-> Adv(r2, 4),
         f |-> Adv(f, OrderFakerDraws)]

RECURSIVE OrdersLoop(_, _, _, _, _, _, _, _, _, _)
OrdersLoop(i, count, r, f, t, customer_ids, product_ids, product_cache, orders, order_items) ==
    IF i >= count THEN [orders |-> orders, order_items |-> order_items, r |-> r, f |-> f]
    ELSE LET o == Order(i, r, f, t, customer_ids, product_ids, product_cache)
         IN  OrdersLoop(i + 1, count, o.r, o.f, t, customer_ids, product_ids, product_cache,
                        Append(orders, o.order), order_items \o o.items)

\* an Optional[List[str]] argument
None == [given |-> FALSE, ids |-> <<>>]
Some(ids) == [given |-> TRUE, ids |-> ids]

\* variant of EffectiveIds: the supplied list is ignored, the cache is always used
EffectiveIds_IgnoresArgument(arg, cache) == DictKeys(cache)

\* variant of EffectiveIds: `if not customer_ids` instead of `is None`, so an
\* empty supplied list falls back to the cache
EffectiveIds_EmptyFallsBack(arg, cache) ==
    IF arg.given /\ arg.ids # <<>> THEN arg.ids ELSE DictKeys(cache)

\* customer_ids / product_ids after lines 327-330
EffectiveIds(arg, cache) == IF arg.given THEN arg.ids ELSE DictKeys(cache)

\* the check of lines 332-333
OrdersRaises(customer_ids, product_ids) == customer_ids = <<>> \/ product_ids = <<>>

\* the loop of generate_orders, for pools that passed the check
GenOrders(count, r, f, t, customer_ids, product_ids, product_cache) ==
    OrdersLoop(0, count, r, f, t, customer_ids, product_ids, product_cache, <<>>, <<>>)

(***************************************************************************)
(* GeneratorConfig and the values the calls return.                        *)
(***************************************************************************)
AvgItems == {3}

Configs == [num_customers : 0 .. MaxCount,
            num_products : 0 .. MaxCount,
            num_stores : {MaxStores},
            num_orders : {0, MaxOrders},
            avg_items_per_order : AvgItems,
            seed : Seeds]

DefaultConfig == [num_customers |-> 0, num_products |-> 0, num_stores |-> 0,
                  num_orders |-> 0, avg_items_per_order |-> 3, seed |-> DefaultSeed]

\* what a call hands back: the sequences it returns (the others stay empty)
NoData == [customers |-> <<>>, products |-> <<>>, stores |-> <<>>,
           orders |-> <<>>, order_items |-> <<>>]

\* lists passed as customer_ids / product_ids: omitted, empty, or two
\* identifiers of which the second is never generated within MaxCount
CustomerIdArgs == {None, Some(<<>>), Some(<<CustomerId(1), CustomerId(MaxCount + 1)>>)}
ProductIdArgs == {None, Some(<<>>), Some(<<ProductId(1), ProductId(MaxCount + 1)>>)}

NewInstance(seed) ==
    [seed |-> seed, _product_cache |-> <<>>, _customer_cache |-> <<>>, calls |-> 0]

Call(g, op, status, count, customer_ids, product_ids, config) ==
    [inst |-> g, op |-> op, status |-> status, count |-> count,
     customer_ids |-> customer_ids, product_ids |-> product_ids, config |-> config]

\* ret[g] after `call` returned (or raised): what it handed back, whether
\* it was the first call on a newly constructed instance, the clock it read
Result(g, call, value) ==
    [call |-> call, value |-> value, fresh |-> gen[g].calls = 0, at |-> now]

InitCall(g) == Call(g, "__init__", "ok", 0, None, None, DefaultConfig)

InitResult(g) == [call |-> InitCall(g), value |-> NoData, fresh |-> TRUE, at |-> 0]

\* variant of Observe: an item keeps a reference to the cached product, so
\* its price is read from whatever product the cache holds now
Observe_LiveReference(items, product_cache) ==
    [k \in 1 .. Len(items) |->
        IF DictHas(product_cache, items[k].product_id)
        THEN [items[k] EXCEPT !.unit_price =
                 DictGet(product_cache, items[k].product_id).unit_price]
        ELSE items[k]]

\* the items a caller holds, read once the product cache has become
\* product_cache: an item dict holds its own unit_price and line_total values
\* and generate_products binds new product dicts, so the items read as before
Observe(items, product_cache) == items

\* no generate_all call is running
NoFrame == [inst |-> 0, config |-> DefaultConfig, data |-> NoData, calls |-> <<>>]

(***************************************************************************)
(* LogAnalyzer: ErrorAnalysis objects and the module-level MOCK_RESPONSES. *)
(* confidence_score is counted in hundredths.                              *)
(***************************************************************************)
ErrorAnalysis(error_type, root_cause, business_impact, confidence_score) ==
    [error_type |-> error_type,
     root_cause |-> root_cause,
     business_impact |-> business_impact,
     requires_human_approval |-> TRUE,
     confidence_score |-> confidence_score,
     additional_context |-> "template"]

MockKeys == {"schema", "connection", "data_quality", "default"}

MOCK_RESPONSES ==
    [key \in MockKeys |->
        CASE key = "schema" -> ErrorAnalysis("SchemaDrift", "schema", "MEDIUM", 85)
          [] key = "connection" -> ErrorAnalysis("ConnectionFailure", "connection", "HIGH", 90)
          [] key = "data_quality" -> ErrorAnalysis("DataQuality", "data_quality", "HIGH", 88)
          [] key = "default" -> ErrorAnalysis("Unknown", "default", "MEDIUM", 30)]

\* analyze has not been called yet
NoAnalysis ==
    [log |-> {}, llm |-> [kind |-> "none"], path |-> "none",
     result |-> MOCK_RESPONSES["default"]]

\* the analyzer before its first call: the module is imported, the LLM is disabled
LogInit ==
    /\ settings = [enable_llm_observability |-> FALSE]
    /\ mock_responses = MOCK_RESPONSES
    /\ analysis = NoAnalysis

(***************************************************************************)
(* llm_metrics: LLMCallMetrics records, the store and its file.            *)
(***************************************************************************)
MaxThreads == 2     \* threads that use the metrics store
MaxOps == 2         \* calls each thread makes
PersistEvery == 10  \* add persists when the list length is a multiple of this

Threads == 1 .. MaxThreads

\* a member of the enum LLMRole
LLMRole(value) == [enum |-> "LLMRole", value |-> value]

\* the LLMCallMetrics of the n-th call of thread t; historical records have
\* t = 0.  The token, latency and cost fields play no part in the store.
LLMCallMetrics(t, n, role, timestamp) ==
    [call_id |-> <<t, n>>, timestamp |-> timestamp, role |-> role]

\* LLMCallMetrics.to_dict
to_dict(m) == [call_id |-> m.call_id, timestamp |-> <<"iso", m.timestamp>>,
               role |-> m.role.value]

\* the record _load builds from an item of the file
FromItem(item) == [call_id |-> item.call_id, timestamp |-> item.timestamp[2],
                   role |-> LLMRole(item.role)]

NoFile == [exists |-> FALSE, data |-> <<>>]

\* the file an earlier process left after n calls
HistoricalFile(n) ==
    [exists |-> TRUE,
     data |-> [k \in 1 .. n |->
                  to_dict(LLMCallMetrics(0, k, LLMRole("chatbot"), 0))]]

\* LLMMetricsStore._load
Load(file) == IF file.exists THEN [k \in 1 .. Len(file.data) |-> FromItem(file.data[k])]
              ELSE <<>>

\* LLMMetricsStore.__init__
LLMMetricsStore(file) == [_metrics |-> Load(file), _lock |-> 0]

NoStore == 0

NoOp == [name |-> "none"]

\* a thread that is not in a call
IdleThread == [pc |-> "idle", op |-> NoOp, ops |-> 0, store |-> NoStore,
               metric |-> LLMCallMetrics(0, 0, LLMRole("general"), 0),
               buf |-> <<>>, result |-> <<>>]

\* the process before the first use of the store
StoreInit ==
    /\ _metrics_store = NoStore
    /\ stores = <<>>
    /\ disk = NoFile
    /\ thread = [t \in Threads |-> IdleThread]
    /\ returned = {}
    /\ recorded = {}

(***************************************************************************)
(* Bronze layer: DataFrames, Delta tables and BronzeWriter.write.  A       *)
(* DataFrame is its set of column names and its rows, a row a function     *)
(* from the column names.                                                  *)
(***************************************************************************)
MaxCalls == 2       \* ingestion and write calls in one behaviour

WriteModes == {"append", "merge", "overwrite"}

\* the field names of ORDER_ITEMS_SCHEMA
ORDER_ITEMS_SCHEMA ==
    {"order_item_id", "order_id", "product_id", "quantity", "unit_price",
     "discount_percent", "line_total", "created_at"}

\* expected_schema of write: None or a StructType
NoSchema == [given |-> FALSE, fields |-> {}]
StructType(fields) == [given |-> TRUE, fields |-> fields]

DataFrame(columns, rows) == [columns |-> columns, rows |-> rows]

\* no Delta table at the path
NoTable == [exists |-> FALSE, columns |-> {}, rows |-> <<>>]

TableNames == {"order_items", "order_items_quarantine"}

\* df.withColumns(...) and the _ingestion_date column
AddMetadataColumns(df, source_system, batch_id, at) ==
    LET meta == [_ingestion_timestamp |-> at, _source_system |-> source_system,
                 _batch_id |-> batch_id, _file_path |-> "None",
                 _ingestion_date |-> at]
    IN  DataFrame(df.columns \cup DOMAIN meta,
                  [k \in 1 .. Len(df.rows) |-> meta @@ df.rows[k]])

\* the expected columns the DataFrame lacks
MissingColumns(df, expected_schema) ==
    IF expected_schema.given THEN expected_schema.fields \ df.columns ELSE {}

\* _write_overwrite
WriteOverwrite(table, df) == [exists |-> TRUE, columns |-> df.columns, rows |-> df.rows]

\* _write_append
WriteAppend(table, df) ==
    [exists |-> TRUE,
     columns |-> IF table.exists THEN table.columns ELSE df.columns,
     rows |-> table.rows \o df.rows]

\* the merge condition: equal on every business key
KeysMatch(target, source, business_keys) ==
    \A key \in business_keys : target[key] = source[key]

\* _write_merge: matched target rows take the source row, unmatched source
\* rows are inserted; a missing table is created by an overwrite
WriteMerge(table, df, business_keys) ==
    IF ~table.exists THEN WriteOverwrite(table, df)
    ELSE LET source(row) ==
                 {k \in 1 .. Len(df.rows) : KeysMatch(row, df.rows[k], business_keys)}
             matched == [k \in 1 .. Len(table.rows) |->
                            IF source(table.rows[k]) = {} THEN table.rows[k]
                            ELSE df.rows[CHOOSE j \in source(table.rows[k]) : TRUE]]
             inserted == SelectSeq(df.rows,
                                   LAMBDA row :
                                       \A k \in 1 .. Len(table.rows) :
                                           ~KeysMatch(table.rows[k], row, business_keys))
         IN  [exists |-> TRUE, columns |-> table.columns, rows |-> matched \o inserted]

\* the table after the mode's operation
Written(table, df, business_keys, mode) ==
    CASE mode = "overwrite" -> WriteOverwrite(table, df)
      [] mode = "merge" -> WriteMerge(table, df, business_keys)
      [] OTHER -> WriteAppend(table, df)

\* variant of BronzeWrite: the mode's operation runs before the validation
BronzeWrite_ValidatesLast(tbls, df, table_name, source_system, business_keys, mode, batch_id, expected_schema, at) ==
    LET with_metadata == AddMetadataColumns(df, source_system, batch_id, at)
        written == [tbls EXCEPT
                       ![table_name] = Written(@, with_metadata, business_keys, mode)]
    IN  IF MissingColumns(df, expected_schema) # {}
        THEN [status |-> "SchemaValidationError", tables |-> written, rows_affected |-> 0]
        ELSE [status |-> "ok", tables |-> written, rows_affected |-> Len(df.rows)]

\* BronzeWriter.write: its outcome and the tables after it
BronzeWrite(tbls, df, table_name, source_system, business_keys, mode, batch_id, expected_schema, at) ==
    LET with_metadata == AddMetadataColumns(df, source_system, batch_id, at)
    IN  IF MissingColumns(df, expected_schema) # {}
        THEN [status |-> "SchemaValidationError", tables |-> tbls, rows_affected |-> 0]
        ELSE [status |-> "ok",
              tables |-> [tbls EXCEPT
                             ![table_name] = Written(@, with_metadata, business_keys, mode)],
              rows_affected |-> Len(df.rows)]

SOURCE_SYSTEM == "sqlserver_ecommerce"

\* GeneratorConfig(), with its counts scaled to the bounds of the model
MockConfig ==
    [num_customers |-> MaxCount, num_products |-> MaxCount, num_stores |-> MaxStores,
     num_orders |-> MaxOrders, avg_items_per_order |-> 3, seed |-> DefaultSeed]

\* generate_all(config) on a generator with the fields inst: whether it
\* raises, the dataset, the generator after it and the streams reached
AllData(inst, config, at) ==
    LET c == GenCustomers(config.num_customers, SeedState(config.seed),
                          SeedState(config.seed), at)
        customer_cache == DictSetAll(inst._customer_cache, c.out, "customer_id")
        p == GenProducts(config.num_products, c.r, c.f, at)
        product_cache == DictSetAll(inst._product_cache, p.out, "product_id")
        s == GenStores(config.num_stores, p.r, p.f, at)
        customer_ids == EffectiveIds(None, customer_cache)
        product_ids == EffectiveIds(None, product_cache)
        o == GenOrders(config.num_orders, s.r, s.f, at,
                       customer_ids, product_ids, product_cache)
        raises == OrdersRaises(customer_ids, product_ids)
    IN  [raises |-> raises,
         data |-> IF raises THEN NoData
                  ELSE [customers |-> c.out, products |-> p.out, stores |-> s.out,
                        orders |-> o.orders, order_items |-> o.order_items],
         inst |-> [inst EXCEPT !._customer_cache = customer_cache,
                               !._product_cache = product_cache,
                               !.calls = @ + 1],
         r |-> IF raises THEN s.r ELSE o.r,
         f |-> IF raises THEN s.f ELSE o.f]

\* a row of dbo.OrderItems: the j-th item of order n
SourceItem(n, j) ==
    [order_item_id |-> OrderItemId(OrderId(n), j), order_id |-> OrderId(n),
     product_id |-> ProductId(1), quantity |-> 1, unit_price |-> 100 * Cent,
     discount_percent |-> 0, line_total |-> 100 * Cent, created_at |-> 0]

\* states of the source database: the item of order 2 is there, its order
\* is or is not
Databases ==
    [orders : {{OrderId(1)}, {OrderId(1), OrderId(2)}},
     order_items : {<<SourceItem(1, 1), SourceItem(2, 1)>>}]

NoGenerator == [seed |-> 0, _product_cache |-> <<>>, _customer_cache |-> <<>>, calls |-> -1]

\* SQLServerIngestion.__init__, for the setting real
SQLServerIngestion(real) ==
    [settings |-> [enable_real_database_connections |-> real],
     _mock_generator |-> NoGenerator]

NoOutcome == [op |-> "none", mode |-> "none", validate_orders |-> FALSE, status |-> "ok",
              df |-> DataFrame({}, <<>>), expected_schema |-> NoSchema,
              orders |-> {}, batch_ids |-> {}, quarantined_count |-> 0]

\* no table written yet, mock mode
IngestInit ==
    /\ tables = [name \in TableNames |-> NoTable]
    /\ ingestion = SQLServerIngestion(FALSE)
    /\ database = [orders |-> {}, order_items |-> <<>>]
    /\ batches = 0
    /\ outcome = NoOutcome

(***************************************************************************)
(* utils.logging: the correlation id and the PipelineContext objects.      *)
(***************************************************************************)
MaxDepth == 2       \* PipelineContext blocks open at a time
MaxEntries == 5     \* log entries in one behaviour
MaxUuids == 3       \* distinct values of str(uuid.uuid4())[:8]

Uuids == 1 .. MaxUuids

\* the default of the ContextVar
NoId == 0

\* the process before any log entry
ContextInit ==
    /\ _correlation_id = NoId
    /\ contexts = <<>>
    /\ entries = <<>>

(***************************************************************************)
(* Initial state: the modules are imported and gen1, gen2 are constructed, *)
(* in this order, with the default seed.                                   *)
(***************************************************************************)
Init ==
    /\ random_state = SeedState(DefaultSeed)
    /\ faker_state = SeedState(DefaultSeed)
    /\ now = 0
    /\ gen = [g \in Instances |-> NewInstance(DefaultSeed)]
    /\ ret = [g \in Instances |-> InitResult(g)]
    /\ last = InitCall(2)
    /\ steps = 0
    /\ held = [g \in Instances |-> <<>>]
    /\ pc = "idle"
    /\ frame = NoFrame
    /\ LogInit
    /\ StoreInit
    /\ IngestInit
    /\ ContextInit

\* the wall clock advances before a call reads it
Tick ==
    /\ now < MaxNow
    /\ steps < MaxSteps
    /\ now' = now + 1
    /\ UNCHANGED <<random_state, faker_state, gen, ret, last, steps, held>>
    /\ UNCHANGED <<allvars, logvars, sidevars>>

\* gen_g = RetailMockDataGenerator(seed)
Construct(g, seed) ==
    /\ steps < MaxSteps
    /\ steps' = steps + 1
    /\ random_state' = SeedState(seed)
    /\ faker_state' = SeedState(seed)
    /\ gen' = [gen EXCEPT ![g] = NewInstance(seed)]
    /\ ret' = [ret EXCEPT ![g] = [InitResult(g) EXCEPT !.at = now]]
    /\ last' = InitCall(g)
    /\ UNCHANGED <<now, held, allvars, logvars, sidevars>>

GenerateCustomers(g, count) ==
    LET res == GenCustomers(count, random_state, faker_state, now)
        call == Call(g, "generate_customers", "ok", count, None, None, DefaultConfig)
    IN  /\ steps < MaxSteps
        /\ steps' = steps + 1
        /\ random_state' = res.r
        /\ faker_state' = res.f
        /\ gen' = [gen EXCEPT
                     ![g]._customer_cache = DictSetAll(@, res.out, "customer_id"),
                     ![g].calls = @ + 1]
        /\ ret' = [ret EXCEPT ![g] = Result(g, call, [NoData EXCEPT !.customers = res.out])]
        /\ last' = call
        /\ UNCHANGED <<now, held, allvars, logvars, sidevars>>

GenerateProducts(g, count) ==
    LET res == GenProducts(count, random_state, faker_state, now)
        call == Call(g, "generate_products", "ok", count, None, None, DefaultConfig)
    IN  /\ steps < MaxSteps
        /\ steps' = steps + 1
        /\ random_state' = res.r
        /\ faker_state' = res.f
        /\ gen' = [gen EXCEPT
                     ![g]._product_cache = DictSetAll(@, res.out, "product_id"),
                     ![g].calls = @ + 1]
        /\ ret' = [ret EXCEPT ![g] = Result(g, call, [NoData EXCEPT !.products = res.out])]
        /\ last' = call
        /\ held' = [held EXCEPT ![g] = Observe(@, gen'[g]._product_cache)]
        /\ UNCHANGED <<now, allvars, logvars, sidevars>>

GenerateStores(g, count) ==
    LET res == GenStores(count, random_state, faker_state, now)
        call == Call(g, "generate_stores", "ok", count, None, None, DefaultConfig)
    IN  /\ steps < MaxSteps
        /\ steps' = steps + 1
        /\ random_state' = res.r
        /\ faker_state' = res.f
        /\ gen' = [gen EXCEPT ![g].calls = @ + 1]
        /\ ret' = [ret EXCEPT ![g] = Result(g, call, [NoData EXCEPT !.stores = res.out])]
        /\ last' = call
        /\ UNCHANGED <<now, held, allvars, logvars, sidevars>>

\* variant of GenerateOrders: the first order date is drawn before the pools
\* are checked, so a failing call has moved the Faker stream
GenerateOrders_DrawsBeforeCheck(g, count, customer_ids_arg, product_ids_arg) ==
    LET customer_ids == EffectiveIds(customer_ids_arg, gen[g]._customer_cache)
        product_ids == EffectiveIds(product_ids_arg, gen[g]._product_cache)
        res == GenOrders(count, random_state, faker_state, now,
                         customer_ids, product_ids, gen[g]._product_cache)
        call(status) == Call(g, "generate_orders", status, count,
                             customer_ids_arg, product_ids_arg, DefaultConfig)
    IN  /\ steps < MaxSteps
        /\ steps' = steps + 1
        /\ gen' = [gen EXCEPT ![g].calls = @ + 1]
        /\ UNCHANGED <<now, allvars, logvars, sidevars>>
        /\ \/ /\ OrdersRaises(customer_ids, product_ids)
              /\ random_state' = random_state
              /\ faker_state' = NextState(faker_state)
              /\ ret' = [ret EXCEPT ![g] = Result(g, call("ValueError"), NoData)]
              /\ last' = call("ValueError")
              /\ UNCHANGED held
           \/ /\ ~OrdersRaises(customer_ids, product_ids)
              /\ random_state' = res.r
              /\ faker_state' = res.f
              /\ ret' = [ret EXCEPT ![g] =
                           Result(g, call("ok"),
                                  [NoData EXCEPT !.orders = res.orders,
                                                 !.order_items = res.order_items])]
              /\ last' = call("ok")
              /\ held' = [held EXCEPT ![g] = res.order_items]

\* variant of GenerateOrders: a zero count returns before the pools are checked
GenerateOrders_ZeroCountReturns(g, count, customer_ids_arg, product_ids_arg) ==
    LET customer_ids == EffectiveIds(customer_ids_arg, gen[g]._customer_cache)
        product_ids == EffectiveIds(product_ids_arg, gen[g]._product_cache)
        res == GenOrders(count, random_state, faker_state, now,
                         customer_ids, product_ids, gen[g]._product_cache)
        call(status) == Call(g, "generate_orders", status, count,
                             customer_ids_arg, product_ids_arg, DefaultConfig)
    IN  /\ steps < MaxSteps
        /\ steps' = steps + 1
        /\ gen' = [gen EXCEPT ![g].calls = @ + 1]
        /\ UNCHANGED <<now, allvars, logvars, sidevars>>
        /\ \/ /\ count # 0 /\ OrdersRaises(customer_ids, product_ids)
              /\ UNCHANGED <<random_state, faker_state>>
              /\ ret' = [ret EXCEPT ![g] = Result(g, call("ValueError"), NoData)]
              /\ last' = call("ValueError")
              /\ UNCHANGED held
           \/ /\ count = 0 \/ ~OrdersRaises(customer_ids, product_ids)
              /\ random_state' = res.r
              /\ faker_state' = res.f
              /\ ret' = [ret EXCEPT ![g] =
                           Result(g, call("ok"),
                                  [NoData EXCEPT !.orders = res.orders,
                                                 !.order_items = res.order_items])]
              /\ last' = call("ok")
              /\ held' = [held EXCEPT ![g] = res.order_items]

\* variant of GenerateOrders: the product lookup is a setdefault, so a supplied
\* identifier that is not cached gets an entry
GenerateOrders_CachesLookups(g, count, customer_ids_arg, product_ids_arg) ==
    LET customer_ids == EffectiveIds(customer_ids_arg, gen[g]._customer_cache)
        product_ids == EffectiveIds(product_ids_arg, gen[g]._product_cache)
        res == GenOrders(count, random_state, faker_state, now,
                         customer_ids, product_ids, gen[g]._product_cache)
        call(status) == Call(g, "generate_orders", status, count,
                             customer_ids_arg, product_ids_arg, DefaultConfig)
    IN  /\ steps < MaxSteps
        /\ steps' = steps + 1
        /\ gen' = [gen EXCEPT
                     ![g]._product_cache =
                        IF OrdersRaises(customer_ids, product_ids) THEN @
                        ELSE DictSetAll(
                                 @,
                                 SelectSeq([k \in 1 .. Len(product_ids) |->
                                               [product_id |-> product_ids[k]]],
                                           LAMBDA rec : ~DictHas(@, rec.product_id)),
                                 "product_id"),
                     ![g].calls = @ + 1]
        /\ UNCHANGED <<now, allvars, logvars, sidevars>>
        /\ \/ /\ OrdersRaises(customer_ids, product_ids)
              /\ UNCHANGED <<random_state, faker_state>>
              /\ ret' = [ret EXCEPT ![g] = Result(g, call("ValueError"), NoData)]
              /\ last' = call("ValueError")
              /\ UNCHANGED held
           \/ /\ ~OrdersRaises(customer_ids, product_ids)
              /\ random_state' = res.r
              /\ faker_state' = res.f
              /\ ret' = [ret EXCEPT ![g] =
                           Result(g, call("ok"),
                                  [NoData EXCEPT !.orders = res.orders,
                                                 !.order_items = res.order_items])]
              /\ last' = call("ok")
              /\ held' = [held EXCEPT ![g] = res.order_items]

GenerateOrders(g, count, customer_ids_arg, product_ids_arg) ==
    LET customer_ids == EffectiveIds(customer_ids_arg, gen[g]._customer_cache)
        product_ids == EffectiveIds(product_ids_arg, gen[g]._product_cache)
        res == GenOrders(count, random_state, faker_state, now,
                         customer_ids, product_ids, gen[g]._product_cache)
        call(status) == Call(g, "generate_orders", status, count,
                             customer_ids_arg, product_ids_arg, DefaultConfig)
    IN  /\ steps < MaxSteps
        /\ steps' = steps + 1
        /\ gen' = [gen EXCEPT ![g].calls = @ + 1]
        /\ UNCHANGED <<now, allvars, logvars, sidevars>>
        /\ \/ /\ OrdersRaises(customer_ids, product_ids)
              /\ UNCHANGED <<random_state, faker_state>>
              /\ ret' = [ret EXCEPT ![g] = Result(g, call("ValueError"), NoData)]
              /\ last' = call("ValueError")
              /\ UNCHANGED held
           \/ /\ ~OrdersRaises(customer_ids, product_ids)
              /\ random_state' = res.r
              /\ faker_state' = res.f
              /\ ret' = [ret EXCEPT ![g] =
                           Result(g, call("ok"),
                                  [NoData EXCEPT !.orders = res.orders,
                                                 !.order_items = res.order_items])]
              /\ last' = call("ok")
              /\ held' = [held EXCEPT ![g] = res.order_items]

\* variant of GenerateAll: the streams are not re-seeded from config.seed
GenerateAll_NoReseed(g, config) ==
    LET c == GenCustomers(config.num_customers, random_state, faker_state, now)
        customer_cache == DictSetAll(gen[g]._customer_cache, c.out, "customer_id")
        p == GenProducts(config.num_products, c.r, c.f, now)
        product_cache == DictSetAll(gen[g]._product_cache, p.out, "product_id")
        s == GenStores(config.num_stores, p.r, p.f, now)
        customer_ids == EffectiveIds(None, customer_cache)
        product_ids == EffectiveIds(None, product_cache)
        o == GenOrders(config.num_orders, s.r, s.f, now,
                       customer_ids, product_ids, product_cache)
        call(status) == Call(g, "generate_all", status, 0, None, None, config)
    IN  /\ steps < MaxSteps
        /\ steps' = steps + 1
        /\ gen' = [gen EXCEPT ![g]._customer_cache = customer_cache,
                              ![g]._product_cache = product_cache,
                              ![g].calls = @ + 1]
        /\ UNCHANGED <<now, allvars, logvars, sidevars>>
        /\ \/ /\ OrdersRaises(customer_ids, product_ids)
              /\ random_state' = s.r
              /\ faker_state' = s.f
              /\ ret' = [ret EXCEPT ![g] = Result(g, call("ValueError"), NoData)]
              /\ last' = call("ValueError")
              /\ held' = [held EXCEPT ![g] = Observe(@, product_cache)]
           \/ /\ ~OrdersRaises(customer_ids, product_ids)
              /\ random_state' = o.r
              /\ faker_state' = o.f
              /\ ret' = [ret EXCEPT ![g] =
                           Result(g, call("ok"),
                                  [customers |-> c.out, products |-> p.out, stores |-> s.out,
                                   orders |-> o.orders, order_items |-> o.order_items])]
              /\ last' = call("ok")
              /\ held' = [held EXCEPT ![g] = o.order_items]

GenerateAll(g, config) ==
    LET c == GenCustomers(config.num_customers, SeedState(config.seed),
                          SeedState(config.seed), now)
        customer_cache == DictSetAll(gen[g]._customer_cache, c.out, "customer_id")
        p == GenProducts(config.num_products, c.r, c.f, now)
        product_cache == DictSetAll(gen[g]._product_cache, p.out, "product_id")
        s == GenStores(config.num_stores, p.r, p.f, now)
        customer_ids == EffectiveIds(None, customer_cache)
        product_ids == EffectiveIds(None, product_cache)
        o == GenOrders(config.num_orders, s.r, s.f, now,
                       customer_ids, product_ids, product_cache)
        call(status) == Call(g, "generate_all", status, 0, None, None, config)
    IN  /\ steps < MaxSteps
        /\ steps' = steps + 1
        /\ gen' = [gen EXCEPT ![g]._customer_cache = customer_cache,
                              ![g]._product_cache = product_cache,
                              ![g].calls = @ + 1]
        /\ UNCHANGED <<now, allvars, logvars, sidevars>>
        /\ \/ /\ OrdersRaises(customer_ids, product_ids)
              /\ random_state' = s.r
              /\ faker_state' = s.f
              /\ ret' = [ret EXCEPT ![g] = Result(g, call("ValueError"), NoData)]
              /\ last' = call("ValueError")
              /\ held' = [held EXCEPT ![g] = Observe(@, product_cache)]
           \/ /\ ~OrdersRaises(customer_ids, product_ids)
              /\ random_state' = o.r
              /\ faker_state' = o.f
              /\ ret' = [ret EXCEPT ![g] =
                           Result(g, call("ok"),
                                  [customers |-> c.out, products |-> p.out, stores |-> s.out,
                                   orders |-> o.orders, order_items |-> o.order_items])]
              /\ last' = call("ok")
              /\ held' = [held EXCEPT ![g] = o.order_items]

Next ==
    \/ Tick
    \/ \E g \in Instances, seed \in Seeds : Construct(g, seed)
    \/ \E g \in Instances, count \in Counts : GenerateCustomers(g, count)
    \/ \E g \in Instances, count \in Counts : GenerateProducts(g, count)
    \/ \E g \in Instances, count \in StoreCounts : GenerateStores(g, count)
    \/ \E g \in Instances, count \in OrderCounts,
          customer_ids \in CustomerIdArgs, product_ids \in ProductIdArgs :
            GenerateOrders(g, count, customer_ids, product_ids)
    \/ \E g \in Instances, config \in Configs : GenerateAll(g, config)

Spec == Init /\ [][Next]_vars

(***************************************************************************)
(* generate_all statement by statement (lines 422-441): the same call as   *)
(* GenerateAll, with the clock free to advance between its statements.     *)
(* pc names the statement the running call executes next.                  *)
(***************************************************************************)
MaxRuns == 1        \* generate_all calls made statement by statement

AllAvgItems == {3, 6}

AllConfigs == [num_customers : 0 .. MaxCount,
               num_products : 0 .. MaxCount,
               num_stores : {0, MaxStores},
               num_orders : {0, MaxOrders},
               avg_items_per_order : AllAvgItems,
               seed : Seeds]

\* variant of NextStatement: the orders are generated before the products
NextStatement_OrdersBeforeProducts(stmt) ==
    CASE stmt = "seed" -> "generate_customers"
      [] stmt = "generate_customers" -> "generate_orders"
      [] stmt = "generate_orders" -> "generate_products"
      [] stmt = "generate_products" -> "generate_stores"
      [] stmt = "generate_stores" -> "return"

\* the statement that follows stmt in the body of generate_all
NextStatement(stmt) ==
    CASE stmt = "seed" -> "generate_customers"
      [] stmt = "generate_customers" -> "generate_products"
      [] stmt = "generate_products" -> "generate_stores"
      [] stmt = "generate_stores" -> "generate_orders"
      [] stmt = "generate_orders" -> "return"

\* the running call has executed the statement at pc
Executed == [frame EXCEPT !.calls = Append(@, pc)]

\* data = generator.generate_all(config): the call is entered
AllEnter(g, config) ==
    /\ pc = "idle"
    /\ steps < MaxRuns
    /\ pc' = "seed"
    /\ frame' = [inst |-> g, config |-> config, data |-> NoData, calls |-> <<>>]
    /\ UNCHANGED <<genvars, logvars, sidevars>>

\* random.seed(config.seed); Faker.seed(config.seed)
AllSeed ==
    /\ pc = "seed"
    /\ random_state' = SeedState(frame.config.seed)
    /\ faker_state' = SeedState(frame.config.seed)
    /\ pc' = NextStatement(pc)
    /\ frame' = Executed
    /\ UNCHANGED <<now, gen, ret, last, steps, held, logvars, sidevars>>

\* customers = self.generate_customers(config.num_customers)
AllCustomers ==
    LET g == frame.inst
        res == GenCustomers(frame.config.num_customers, random_state, faker_state, now)
    IN  /\ pc = "generate_customers"
        /\ random_state' = res.r
        /\ faker_state' = res.f
        /\ gen' = [gen EXCEPT ![g]._customer_cache = DictSetAll(@, res.out, "customer_id")]
        /\ pc' = NextStatement(pc)
        /\ frame' = [Executed EXCEPT !.data.customers = res.out]
        /\ UNCHANGED <<now, ret, last, steps, held, logvars, sidevars>>

\* products = self.generate_products(config.num_products)
AllProducts ==
    LET g == frame.inst
        res == GenProducts(frame.config.num_products, random_state, faker_state, now)
    IN  /\ pc = "generate_products"
        /\ random_state' = res.r
        /\ faker_state' = res.f
        /\ gen' = [gen EXCEPT ![g]._product_cache = DictSetAll(@, res.out, "product_id")]
        /\ held' = [held EXCEPT ![g] = Observe(@, gen'[g]._product_cache)]
        /\ pc' = NextStatement(pc)
        /\ frame' = [Executed EXCEPT !.data.products = res.out]
        /\ UNCHANGED <<now, ret, last, steps, logvars, sidevars>>

\* stores = self.generate_stores(config.num_stores)
AllStores ==
    LET res == GenStores(frame.config.num_stores, random_state, faker_state, now)
    IN  /\ pc = "generate_stores"
        /\ random_state' = res.r
        /\ faker_state' = res.f
        /\ pc' = NextStatement(pc)
        /\ frame' = [Executed EXCEPT !.data.stores = res.out]
        /\ UNCHANGED <<now, gen, ret, last, steps, held, logvars, sidevars>>

\* orders, order_items = self.generate_orders(config.num_orders): the call
\* raises, which ends generate_all, or hands back the orders and their items
AllOrders ==
    LET g == frame.inst
        customer_ids == EffectiveIds(None, gen[g]._customer_cache)
        product_ids == EffectiveIds(None, gen[g]._product_cache)
        res == GenOrders(frame.config.num_orders, random_state, faker_state, now,
                         customer_ids, product_ids, gen[g]._product_cache)
        call == Call(g, "generate_all", "ValueError", 0, None, None, frame.config)
    IN  /\ pc = "generate_orders"
        /\ UNCHANGED <<now, logvars, sidevars>>
        /\ \/ /\ OrdersRaises(customer_ids, product_ids)
              /\ pc' = "idle"
              /\ frame' = NoFrame
              /\ steps' = steps + 1
              /\ gen' = [gen EXCEPT ![g].calls = @ + 1]
              /\ ret' = [ret EXCEPT ![g] = Result(g, call, NoData)]
              /\ last' = call
              /\ UNCHANGED <<random_state, faker_state, held>>
           \/ /\ ~OrdersRaises(customer_ids, product_ids)
              /\ random_state' = res.r
              /\ faker_state' = res.f
              /\ pc' = NextStatement(pc)
              /\ frame' = [Executed EXCEPT !.data.orders = res.orders,
                                           !.data.order_items = res.order_items]
              /\ held' = [held EXCEPT ![g] = res.order_items]
              /\ UNCHANGED <<gen, ret, last, steps>>

\* return {"customers": customers, ..., "order_items": order_items}
AllReturn ==
    LET g == frame.inst
        call == Call(g, "generate_all", "ok", 0, None, None, frame.config)
    IN  /\ pc = "return"
        /\ pc' = "idle"
        /\ frame' = NoFrame
        /\ steps' = steps + 1
        /\ gen' = [gen EXCEPT ![g].calls = @ + 1]
        /\ ret' = [ret EXCEPT ![g] = Result(g, call, frame.data)]
        /\ last' = call
        /\ UNCHANGED <<random_state, faker_state, now, held, logvars, sidevars>>

NextAll ==
    \/ Tick
    \/ \E g \in Instances, config \in AllConfigs : AllEnter(g, config)
    \/ AllSeed
    \/ AllCustomers
    \/ AllProducts
    \/ AllStores
    \/ AllOrders
    \/ AllReturn

SpecAll == Init /\ [][NextAll]_vars

(***************************************************************************)
(* LogAnalyzer.  An error log is the set of words it is made of, in the    *)
(* case they are written in; the text a test passes is such a set.  The    *)
(* reply of the LLM is an exception, a text that is no JSON, a JSON array  *)
(* or a JSON object, which is a function from its keys to their values.    *)
(***************************************************************************)
MaxWords == 2       \* words of one error log

LogWords == {"Column", "column", "schema", "Connection", "refused", "Null", "validation"}

Logs == {log \in SUBSET LogWords : Cardinality(log) <= MaxWords}

\* str.lower() of one word
Lower(word) ==
    CASE word = "Column" -> "column"
      [] word = "Connection" -> "connection"
      [] word = "Null" -> "null"
      [] OTHER -> word

\* error_log.lower()
LowerLog(error_log) == {Lower(word) : word \in error_log}

\* the key of the template _get_mock_response returns
MockKey(error_log) ==
    LET error_lower == LowerLog(error_log)
    IN  IF {"schema", "column", "drift"} \cap error_lower # {} THEN "schema"
        ELSE IF {"connection", "refused", "timeout"} \cap error_lower # {} THEN "connection"
        ELSE IF {"null", "quality", "validation"} \cap error_lower # {} THEN "data_quality"
        ELSE "default"

ErrorTypes == {"SchemaDrift", "ConnectionFailure", "DataQuality", "ResourceExhaustion",
               "PermissionDenied", "Timeout", "Unknown"}

\* a JSON object with the required keys of ErrorAnalysis
JsonObject(error_type, confidence_score) ==
    [error_type |-> error_type,
     root_cause |-> "llm",
     business_impact |-> "HIGH",
     recommended_action |-> "llm",
     confidence_score |-> confidence_score]

\* obj with key set to value, added when obj has no such key
WithKey(obj, key, value) ==
    [k \in DOMAIN obj \cup {key} |-> IF k = key THEN value ELSE obj[k]]

\* the replies of the LLM: the objects are valid, or carry an unknown error
\* type or a confidence outside 0 .. 1, and carry requires_human_approval
\* true, false or not at all
LlmObjects ==
    LET bare == {JsonObject("DataQuality", 70), JsonObject("NotAnErrorType", 70),
                 JsonObject("DataQuality", 150)}
    IN  bare \cup {WithKey(obj, "requires_human_approval", a) : obj \in bare, a \in BOOLEAN}

LlmReplies ==
    {[kind |-> "raises"], [kind |-> "not_json"], [kind |-> "array"]}
    \cup {[kind |-> "object", data |-> obj] : obj \in LlmObjects}

NoReply == [kind |-> "none"]

\* variant of Enforce: the reply of the LLM is taken as it is
Enforce_Trusting(response_data) == response_data

\* response_data["requires_human_approval"] = True
Enforce(response_data) == WithKey(response_data, "requires_human_approval", TRUE)

\* ErrorAnalysis(**response_data) raises a validation error
Invalid(response_data) ==
    \/ response_data.error_type \notin ErrorTypes
    \/ response_data.confidence_score \notin 0 .. 100

\* ErrorAnalysis(**response_data) for valid data; a key left out takes the
\* default of its field
FromData(response_data) ==
    [error_type |-> response_data.error_type,
     root_cause |-> response_data.root_cause,
     business_impact |-> response_data.business_impact,
     requires_human_approval |->
        IF "requires_human_approval" \in DOMAIN response_data
        THEN response_data.requires_human_approval ELSE TRUE,
     confidence_score |-> response_data.confidence_score,
     additional_context |-> "none"]

\* the try block of analyze ends in the except clause
LlmFails(reply) ==
    \/ reply.kind \in {"raises", "not_json", "array"}
    \/ reply.kind = "object" /\ Invalid(Enforce(reply.data))

\* settings.enable_llm_observability is set
SetLlmObservability(flag) ==
    /\ settings.enable_llm_observability # flag
    /\ settings' = [settings EXCEPT !.enable_llm_observability = flag]
    /\ UNCHANGED <<mock_responses, analysis, genvars, allvars, sidevars>>

\* result = analyzer.analyze(error_log), the LLM answering with reply
Analyze(error_log, reply) ==
    LET key == MockKey(error_log)
        fallback == [mock_responses[key] EXCEPT
                        !.additional_context = "LLM analysis failed",
                        !.confidence_score = 20]
    IN  /\ UNCHANGED <<settings, genvars, allvars, sidevars>>
        /\ \/ /\ ~settings.enable_llm_observability
              /\ analysis' = [log |-> error_log, llm |-> NoReply, path |-> "mock",
                              result |-> mock_responses[key]]
              /\ UNCHANGED mock_responses
           \/ /\ settings.enable_llm_observability
              /\ ~LlmFails(reply)
              /\ analysis' = [log |-> error_log, llm |-> reply, path |-> "llm",
                              result |-> FromData(Enforce(reply.data))]
              /\ UNCHANGED mock_responses
           \/ /\ settings.enable_llm_observability
              /\ LlmFails(reply)
              /\ mock_responses' = [mock_responses EXCEPT ![key] = fallback]
              /\ analysis' = [log |-> error_log, llm |-> reply, path |-> "fallback",
                              result |-> fallback]

NextLog ==
    \/ \E flag \in BOOLEAN : SetLlmObservability(flag)
    \/ \E error_log \in Logs, reply \in LlmReplies : Analyze(error_log, reply)

SpecLog == Init /\ [][NextLog]_vars

(***************************************************************************)
(* Longer histories of one instance: gen1 has already served               *)
(* generate_customers(n) and generate_products(m) when the behaviour       *)
(* starts, and serves MaxSteps further calls.                              *)
(***************************************************************************)
\* the state of the streams and the records after gen1.generate_customers(n)
\* and gen1.generate_products(m), called right after construction
WarmUp(n, m) ==
    LET c == GenCustomers(n, SeedState(DefaultSeed), SeedState(DefaultSeed), 0)
        p == GenProducts(m, c.r, c.f, 0)
    IN  [customers |-> c.out, products |-> p.out, r |-> p.r, f |-> p.f]

WarmInstance(w) ==
    [seed |-> DefaultSeed,
     _product_cache |-> DictSetAll(<<>>, w.products, "product_id"),
     _customer_cache |-> DictSetAll(<<>>, w.customers, "customer_id"),
     calls |-> 2]

InitDeep ==
    \E n \in 0 .. MaxCount, m \in 0 .. MaxCount :
        LET w == WarmUp(n, m)
            call == Call(1, "generate_products", "ok", m, None, None, DefaultConfig)
        IN  /\ random_state = w.r
            /\ faker_state = w.f
            /\ now = 0
            /\ gen = [g \in Instances |->
                        IF g = 1 THEN WarmInstance(w) ELSE NewInstance(DefaultSeed)]
            /\ ret = [g \in Instances |->
                        IF g = 1
                        THEN [call |-> call, value |-> [NoData EXCEPT !.products = w.products],
                              fresh |-> FALSE, at |-> 0]
                        ELSE InitResult(g)]
            /\ last = call
            /\ steps = 0
            /\ held = [g \in Instances |-> <<>>]
            /\ pc = "idle"
            /\ frame = NoFrame
            /\ LogInit
            /\ StoreInit
            /\ IngestInit
    /\ ContextInit
            /\ ContextInit

DeepConfigs == [num_customers : 0 .. MaxCount,
                num_products : 1 .. MaxCount,
                num_stores : {MaxStores},
                num_orders : {MaxOrders},
                avg_items_per_order : AvgItems,
                seed : Seeds]

NextDeep ==
    \/ Tick
    \/ \E count \in 0 .. MaxCount : GenerateCustomers(1, count)
    \/ \E count \in 0 .. MaxCount : GenerateProducts(1, count)
    \/ \E product_ids \in {None, Some(<<ProductId(1), ProductId(MaxCount + 1)>>)} :
          GenerateOrders(1, MaxOrders, None, product_ids)
    \/ \E config \in DeepConfigs : GenerateAll(1, config)

SpecDeep == InitDeep /\ [][NextDeep]_vars

(***************************************************************************)
(* The metrics store used from several threads.  A thread's call goes      *)
(* through get_metrics_store (test, construct and assign, return), takes   *)
(* the store's lock, runs the method's body and releases the lock.  The    *)
(* list comprehensions of the readers and of _persist run one element a    *)
(* step.                                                                   *)
(***************************************************************************)
RoleOf == [t \in Threads |-> IF t = 1 THEN LLMRole("log_analyzer")
                             ELSE LLMRole("schema_drift")]

\* the calls a thread makes: add, from LLMMetricsTracker.__exit__, and the readers
StoreOps ==
    {[name |-> "add"],
     [name |-> "get_all"],
     [name |-> "get_by_role", role |-> LLMRole("log_analyzer")],
     [name |-> "get_by_timerange", start |-> 1, end |-> MaxOps]}

\* the files the process may find at start
InitialFiles == {NoFile, HistoricalFile(PersistEvery - 2), HistoricalFile(PersistEvery - 1)}

\* the condition of a reader's comprehension
Matches(op, m) ==
    CASE op.name = "get_by_role" -> m.role = op.role
      [] op.name = "get_by_timerange" -> op.start <= m.timestamp /\ m.timestamp <= op.end
      [] OTHER -> TRUE

Filter(op, metrics) == SelectSeq(metrics, LAMBDA m : Matches(op, m))

\* `if _metrics_store is None` at the start of get_metrics_store
Invoke(t, op) ==
    /\ thread[t].pc = "idle"
    /\ thread[t].ops < MaxOps
    /\ thread' = [thread EXCEPT ![t] =
                     [@ EXCEPT !.pc = IF _metrics_store = NoStore THEN "construct"
                                      ELSE "return",
                               !.op = op,
                               !.ops = @ + 1,
                               !.metric = IF op.name = "add"
                                          THEN LLMCallMetrics(t, thread[t].ops + 1,
                                                              RoleOf[t], thread[t].ops + 1)
                                          ELSE @,
                               !.buf = <<>>,
                               !.result = <<>>]]
    /\ UNCHANGED <<_metrics_store, stores, disk, returned, recorded>>
    /\ UNCHANGED <<genvars, allvars, logvars, ingestvars, ctxvars>>

\* `_metrics_store = LLMMetricsStore()`
ConstructStore(t) ==
    /\ thread[t].pc = "construct"
    /\ stores' = Append(stores, LLMMetricsStore(disk))
    /\ _metrics_store' = Len(stores) + 1
    /\ thread' = [thread EXCEPT ![t].pc = "return"]
    /\ UNCHANGED <<disk, returned, recorded>>
    /\ UNCHANGED <<genvars, allvars, logvars, ingestvars, ctxvars>>

\* `return _metrics_store`
ReturnStore(t) ==
    /\ thread[t].pc = "return"
    /\ thread' = [thread EXCEPT ![t].pc = "acquire", ![t].store = _metrics_store]
    /\ returned' = returned \cup {_metrics_store}
    /\ UNCHANGED <<_metrics_store, stores, disk, recorded>>
    /\ UNCHANGED <<genvars, allvars, logvars, ingestvars, ctxvars>>

\* variant of Acquire: the lock is taken without waiting for it to be free
Acquire_NoWait(t) ==
    /\ thread[t].pc = "acquire"
    /\ stores' = [stores EXCEPT ![thread[t].store]._lock = t]
    /\ thread' = [thread EXCEPT ![t].pc = IF thread[t].op.name = "add" THEN "append"
                                          ELSE "read"]
    /\ UNCHANGED <<_metrics_store, disk, returned, recorded>>
    /\ UNCHANGED <<genvars, allvars, logvars, ingestvars, ctxvars>>

\* `with self._lock:`
Acquire(t) ==
    /\ thread[t].pc = "acquire"
    /\ stores[thread[t].store]._lock = 0
    /\ stores' = [stores EXCEPT ![thread[t].store]._lock = t]
    /\ thread' = [thread EXCEPT ![t].pc = IF thread[t].op.name = "add" THEN "append"
                                          ELSE "read"]
    /\ UNCHANGED <<_metrics_store, disk, returned, recorded>>
    /\ UNCHANGED <<genvars, allvars, logvars, ingestvars, ctxvars>>

\* `self._metrics.append(metric)` and the test of the length
AppendMetric(t) ==
    LET s == thread[t].store
        metrics == Append(stores[s]._metrics, thread[t].metric)
    IN  /\ thread[t].pc = "append"
        /\ stores' = [stores EXCEPT ![s]._metrics = metrics]
        /\ thread' = [thread EXCEPT ![t].pc = IF Len(metrics) % PersistEvery = 0
                                              THEN "persist" ELSE "release"]
        /\ UNCHANGED <<_metrics_store, disk, returned, recorded>>
        /\ UNCHANGED <<genvars, allvars, logvars, ingestvars, ctxvars>>

\* _persist: one element of `[m.to_dict() for m in self._metrics]`, and after
\* the last one json.dump of the list to the file
Persist(t) ==
    LET s == thread[t].store
        k == Len(thread[t].buf) + 1
    IN  /\ thread[t].pc = "persist"
        /\ \/ /\ k <= Len(stores[s]._metrics)
              /\ thread' = [thread EXCEPT ![t].buf = Append(@, to_dict(stores[s]._metrics[k]))]
              /\ disk' = disk
           \/ /\ k > Len(stores[s]._metrics)
              /\ thread' = [thread EXCEPT ![t].pc = "release"]
              /\ disk' = [exists |-> TRUE, data |-> thread[t].buf]
        /\ UNCHANGED <<_metrics_store, stores, returned, recorded>>
        /\ UNCHANGED <<genvars, allvars, logvars, ingestvars, ctxvars>>

\* get_all: `list(self._metrics)`
Copy(t) ==
    /\ thread[t].pc = "read"
    /\ thread[t].op.name = "get_all"
    /\ thread' = [thread EXCEPT ![t].pc = "release",
                                ![t].result = stores[thread[t].store]._metrics]
    /\ UNCHANGED <<_metrics_store, stores, disk, returned, recorded>>
    /\ UNCHANGED <<genvars, allvars, logvars, ingestvars, ctxvars>>

\* get_by_role, get_by_timerange: one element of the comprehension; buf holds
\* the elements visited, result the ones kept
Select(t) ==
    LET s == thread[t].store
        k == Len(thread[t].buf) + 1
        m == stores[s]._metrics[k]
    IN  /\ thread[t].pc = "read"
        /\ thread[t].op.name # "get_all"
        /\ \/ /\ k <= Len(stores[s]._metrics)
              /\ thread' = [thread EXCEPT
                              ![t].buf = Append(@, m),
                              ![t].result = IF Matches(thread[t].op, m)
                                            THEN Append(@, m) ELSE @]
           \/ /\ k > Len(stores[s]._metrics)
              /\ thread' = [thread EXCEPT ![t].pc = "release"]
        /\ UNCHANGED <<_metrics_store, stores, disk, returned, recorded>>
        /\ UNCHANGED <<genvars, allvars, logvars, ingestvars, ctxvars>>

\* the end of the `with` block, and the return
Release(t) ==
    /\ thread[t].pc = "release"
    /\ stores' = [stores EXCEPT ![thread[t].store]._lock = 0]
    /\ thread' = [thread EXCEPT ![t].pc = "idle"]
    /\ recorded' = IF thread[t].op.name = "add"
                   THEN recorded \cup {<<thread[t].store, thread[t].metric.call_id>>}
                   ELSE recorded
    /\ UNCHANGED <<_metrics_store, disk, returned>>
    /\ UNCHANGED <<genvars, allvars, logvars, ingestvars, ctxvars>>

\* the process starts with or without a file of earlier metrics
InitStore ==
    /\ random_state = SeedState(DefaultSeed)
    /\ faker_state = SeedState(DefaultSeed)
    /\ now = 0
    /\ gen = [g \in Instances |-> NewInstance(DefaultSeed)]
    /\ ret = [g \in Instances |-> InitResult(g)]
    /\ last = InitCall(2)
    /\ steps = 0
    /\ held = [g \in Instances |-> <<>>]
    /\ pc = "idle"
    /\ frame = NoFrame
    /\ LogInit
    /\ _metrics_store = NoStore
    /\ stores = <<>>
    /\ disk \in InitialFiles
    /\ thread = [t \in Threads |-> IdleThread]
    /\ returned = {}
    /\ recorded = {}
    /\ IngestInit
    /\ ContextInit

NextStore ==
    \/ \E t \in Threads, op \in StoreOps : Invoke(t, op)
    \/ \E t \in Threads : ConstructStore(t)
    \/ \E t \in Threads : ReturnStore(t)
    \/ \E t \in Threads : Acquire(t)
    \/ \E t \in Threads : AppendMetric(t)
    \/ \E t \in Threads : Persist(t)
    \/ \E t \in Threads : Copy(t)
    \/ \E t \in Threads : Select(t)
    \/ \E t \in Threads : Release(t)

SpecStore == InitStore /\ [][NextStore]_vars

(***************************************************************************)
(* Ingestion of order items into the Bronze layer, and direct calls of     *)
(* BronzeWriter.write.                                                     *)
(***************************************************************************)
Restrict(row, columns) == [c \in columns |-> row[c]]

\* df.select(column).distinct()
Distinct(rows, column) == {rows[k][column] : k \in 1 .. Len(rows)}

\* df.select(columns) and df.withColumn(column, lit(value))
SelectColumns(df, columns) ==
    DataFrame(columns, [k \in 1 .. Len(df.rows) |-> Restrict(df.rows[k], columns)])
WithColumn(df, column, value) ==
    DataFrame(df.columns \cup {column},
              [k \in 1 .. Len(df.rows) |-> (column :> value) @@ df.rows[k]])

SourceFrame == DataFrame(ORDER_ITEMS_SCHEMA, <<SourceItem(1, 1), SourceItem(2, 1)>>)

\* the DataFrames passed to write: as expected, without order_id, with one
\* more column, and both
WriteFrames ==
    {SourceFrame,
     SelectColumns(SourceFrame, ORDER_ITEMS_SCHEMA \ {"order_id"}),
     WithColumn(SourceFrame, "promo_code", "X"),
     WithColumn(SelectColumns(SourceFrame, ORDER_ITEMS_SCHEMA \ {"order_id"}),
                "promo_code", "X")}

\* bronze_writer.write(df, "order_items", ..., ["order_item_id"], mode, expected_schema)
Write(df, mode, expected_schema) ==
    LET w == BronzeWrite(tables, df, "order_items", SOURCE_SYSTEM, {"order_item_id"},
                         mode, batches + 1, expected_schema, now)
    IN  /\ batches < MaxCalls
        /\ batches' = batches + 1
        /\ tables' = w.tables
        /\ outcome' = [op |-> "write", mode |-> mode, validate_orders |-> FALSE,
                       status |-> w.status, df |-> df,
                       expected_schema |-> expected_schema, orders |-> {},
                       batch_ids |-> {batches + 1}, quarantined_count |-> 0]
        /\ UNCHANGED <<ingestion, database>>
        /\ UNCHANGED <<genvars, allvars, logvars, storevars, ctxvars>>

\* the writes of ingest_order_items: items_df was read, order_ids are the
\* identifiers of orders_df when there is one
WriteOrderItems(items_df, checks, order_ids, mode) ==
    LET valid_items == SelectSeq(items_df.rows, LAMBDA row : row.order_id \in order_ids)
        invalid_items == SelectSeq(items_df.rows, LAMBDA row : row.order_id \notin order_ids)
        quarantined_count == IF checks THEN Len(invalid_items) ELSE 0
        quarantine == IF quarantined_count > 0
                      THEN BronzeWrite(tables, DataFrame(items_df.columns, invalid_items),
                                       "order_items_quarantine", SOURCE_SYSTEM,
                                       {"order_item_id"}, "append", batches + 1,
                                       NoSchema, now)
                      ELSE [status |-> "ok", tables |-> tables, rows_affected |-> 0]
        issued == IF quarantined_count > 0 THEN batches + 1 ELSE batches
        result == BronzeWrite(quarantine.tables,
                              IF checks THEN DataFrame(items_df.columns, valid_items)
                              ELSE items_df,
                              "order_items", SOURCE_SYSTEM, {"order_item_id"}, mode,
                              issued + 1, StructType(ORDER_ITEMS_SCHEMA), now)
    IN  [status |-> result.status, tables |-> result.tables, issued |-> issued + 1,
         quarantined_count |-> quarantined_count]

\* SQLServerIngestion.ingest_order_items(mode=mode, validate_orders=validate_orders)
IngestOrderItems(mode, validate_orders) ==
    LET real == ingestion.settings.enable_real_database_connections
        \* the mock_generator property
        generator == IF ingestion._mock_generator = NoGenerator
                     THEN NewInstance(DefaultSeed) ELSE ingestion._mock_generator
        \* orders_df is a DataFrame in mock mode and None otherwise
        checks == validate_orders /\ ~real
    IN  \* _read_mock_data("order_items") and _read_mock_data("orders")
        \E first \in {AllData(generator, MockConfig, now)} :
        \E second \in {AllData(first.inst, MockConfig, now)} :
        \E items_df \in {IF real THEN DataFrame(ORDER_ITEMS_SCHEMA, database.order_items)
                          ELSE DataFrame(ORDER_ITEMS_SCHEMA, first.data.order_items)} :
        \E w \in {WriteOrderItems(items_df, checks,
                                   Distinct(second.data.orders, "order_id"), mode)} :
            /\ batches < MaxCalls
            /\ batches' = w.issued
            /\ tables' = w.tables
            /\ ingestion' = [ingestion EXCEPT
                               !._mock_generator = IF real THEN @
                                                   ELSE IF checks THEN second.inst
                                                   ELSE first.inst]
            /\ random_state' = IF real THEN random_state
                               ELSE IF checks THEN second.r ELSE first.r
            /\ faker_state' = IF real THEN faker_state
                              ELSE IF checks THEN second.f ELSE first.f
            /\ outcome' = [op |-> "ingest_order_items", mode |-> mode,
                           validate_orders |-> validate_orders,
                           status |-> w.status, df |-> items_df,
                           expected_schema |-> StructType(ORDER_ITEMS_SCHEMA),
                           orders |-> IF real THEN database.orders
                                      ELSE Distinct(first.data.orders, "order_id"),
                           batch_ids |-> (batches + 1) .. w.issued,
                           quarantined_count |-> w.quarantined_count]
            /\ UNCHANGED database
            /\ UNCHANGED <<now, gen, ret, last, steps, held>>
            /\ UNCHANGED <<allvars, logvars, storevars, ctxvars>>

\* the process runs in mock mode or against a database
InitIngest ==
    /\ random_state = SeedState(DefaultSeed)
    /\ faker_state = SeedState(DefaultSeed)
    /\ now = 0
    /\ gen = [g \in Instances |-> NewInstance(DefaultSeed)]
    /\ ret = [g \in Instances |-> InitResult(g)]
    /\ last = InitCall(2)
    /\ steps = 0
    /\ held = [g \in Instances |-> <<>>]
    /\ pc = "idle"
    /\ frame = NoFrame
    /\ LogInit
    /\ StoreInit
    /\ tables = [name \in TableNames |-> NoTable]
    /\ \E real \in BOOLEAN : ingestion = SQLServerIngestion(real)
    /\ database \in Databases
    /\ batches = 0
    /\ outcome = NoOutcome
    /\ ContextInit

NextIngest ==
    \/ \E df \in WriteFrames, mode \in WriteModes,
          expected_schema \in {NoSchema, StructType(ORDER_ITEMS_SCHEMA)} :
          Write(df, mode, expected_schema)
    \/ \E mode \in WriteModes, validate_orders \in BOOLEAN :
          IngestOrderItems(mode, validate_orders)

SpecIngest == InitIngest /\ [][NextIngest]_vars

(***************************************************************************)
(* Pipeline runs and their log entries.  An ingestion method enters a      *)
(* PipelineContext, logs, calls BronzeWriter.write, which enters its own   *)
(* PipelineContext, and both leave in turn.  An entry records the id the   *)
(* add_correlation_id processor gave it, and with it the context that was  *)
(* innermost when it was emitted.                                          *)
(***************************************************************************)
\* the pipeline a new context runs: write is called inside an ingestion
PipelineName(depth) == IF depth = 0 THEN "oracle_customers_ingestion" ELSE "bronze_write"

\* the entry the processors build for an event emitted with the id cid
Entry(event, cid) ==
    [event |-> event, correlation_id |-> cid, depth |-> Len(contexts),
     pipeline |-> IF contexts = <<>> THEN "none"
                  ELSE contexts[Len(contexts)].pipeline_name,
     entered_with |-> IF contexts = <<>> THEN NoId
                      ELSE contexts[Len(contexts)].correlation_id]

\* PipelineContext.__enter__, uuid4 giving fresh
Enter(fresh) ==
    LET context == [pipeline_name |-> PipelineName(Len(contexts)),
                    correlation_id |-> fresh]
    IN  /\ Len(contexts) < MaxDepth
        /\ Len(entries) < MaxEntries
        /\ _correlation_id' = fresh
        /\ contexts' = Append(contexts, context)
        /\ entries' = Append(entries,
                             [event |-> "Pipeline started", correlation_id |-> fresh,
                              depth |-> Len(contexts) + 1,
                              pipeline |-> context.pipeline_name,
                              entered_with |-> fresh])
        /\ UNCHANGED <<genvars, allvars, logvars, storevars, ingestvars>>

\* a logger call: get_correlation_id sets the id when there is none, uuid4
\* giving fresh
Log(fresh) ==
    LET cid == IF _correlation_id = NoId THEN fresh ELSE _correlation_id
    IN  /\ Len(entries) < MaxEntries
        /\ _correlation_id' = cid
        /\ entries' = Append(entries, Entry("info", cid))
        /\ UNCHANGED contexts
        /\ UNCHANGED <<genvars, allvars, logvars, storevars, ingestvars>>

\* PipelineContext.__exit__ of the innermost context, with or without an
\* exception
Exit(failed) ==
    /\ contexts # <<>>
    /\ Len(entries) < MaxEntries
    /\ entries' = Append(entries,
                         Entry(IF failed THEN "Pipeline failed" ELSE "Pipeline completed",
                               _correlation_id))
    /\ contexts' = SubSeq(contexts, 1, Len(contexts) - 1)
    /\ UNCHANGED _correlation_id
    /\ UNCHANGED <<genvars, allvars, logvars, storevars, ingestvars>>

NextContext ==
    \/ \E fresh \in Uuids : Enter(fresh)
    \/ \E fresh \in Uuids : Log(fresh)
    \/ \E failed \in BOOLEAN : Exit(failed)

SpecContext == Init /\ [][NextContext]_vars

(***************************************************************************)
(* Vocabulary of the properties.                                           *)
(***************************************************************************)
Range(seq) == {seq[k] : k \in 1 .. Len(seq)}

FieldSet(seq, field) == {seq[k][field] : k \in 1 .. Len(seq)}

\* number of records of seq whose field equals value
CountOf(seq, field, value) == Cardinality({k \in 1 .. Len(seq) : seq[k][field] = value})

RECURSIVE SumLineTotals(_, _)
\* sum of line_total over the items of one order
SumLineTotals(items, order_id) ==
    IF items = <<>> THEN 0
    ELSE (IF Head(items).order_id = order_id THEN Head(items).line_total ELSE 0)
         + SumLineTotals(Tail(items), order_id)

SingleGenerators == {"generate_customers", "generate_products", "generate_stores"}
Generators == SingleGenerators \cup {"generate_orders", "generate_all"}

\* the latest call was a generator call that returned normally
Returned(op) == last.op = op /\ last.status = "ok"

\* what the latest call handed back
LastValue == ret[last.inst].value

\* the pool generate_orders draws from, as the claims state it: the supplied
\* list when one is given, otherwise the cached identifiers
PoolOf(arg, cache) == IF arg.given THEN Range(arg.ids) ELSE FieldSet(cache, 1)

(***************************************************************************)
(* C1: two instances constructed with the same seed return equal           *)
(* sequences from the same first call generate_customers(n) (likewise      *)
(* generate_products(n), generate_stores(n)), also when both are           *)
(* constructed before either generates.  The clock is the same for both    *)
(* calls.                                                                  *)
(***************************************************************************)
C1_SameSeedSameRecords ==
    \A g1 \in Instances, g2 \in Instances :
        ( /\ gen[g1].seed = gen[g2].seed
          /\ ret[g1].fresh /\ ret[g2].fresh
          /\ ret[g1].call.op \in SingleGenerators
          /\ ret[g1].call.op = ret[g2].call.op
          /\ ret[g1].call.count = ret[g2].call.count
          /\ ret[g1].at = ret[g2].at )
        => ret[g1].value = ret[g2].value

(***************************************************************************)
(* C2: the dataset of generate_all(config) on a new instance is a function *)
(* of the config alone, whatever the wall-clock time of the run.           *)
(***************************************************************************)
C2_DatasetFunctionOfConfig ==
    \A g1 \in Instances, g2 \in Instances :
        ( /\ ret[g1].fresh /\ ret[g2].fresh
          /\ ret[g1].call.op = "generate_all"
          /\ ret[g2].call.op = "generate_all"
          /\ ret[g1].call.config = ret[g2].call.config )
        => ret[g1].value = ret[g2].value

(***************************************************************************)
(* C3: a step made on one instance (construction or a generator call)      *)
(* leaves unchanged the random streams and the caches that any other       *)
(* instance uses.                                                          *)
(***************************************************************************)
C3_OtherInstancesUntouched ==
    [][ \A b \in Instances :
          (steps' = steps + 1 /\ last'.inst # b)
          => /\ random_state' = random_state
             /\ faker_state' = faker_state
             /\ gen'[b] = gen[b] ]_vars

(***************************************************************************)
(* C4: after a successful generate_orders, every item's order_id is the    *)
(* order_id of an order of the same call, every order's customer_id is in  *)
(* the effective customer pool and every item's product_id is in the       *)
(* effective product pool.                                                 *)
(***************************************************************************)
C4_OrdersReferentialIntegrity ==
    Returned("generate_orders") =>
        LET g == last.inst
            d == LastValue
        IN  /\ \A k \in 1 .. Len(d.order_items) :
                  /\ d.order_items[k].order_id \in FieldSet(d.orders, "order_id")
                  /\ d.order_items[k].product_id
                        \in PoolOf(last.product_ids, gen[g]._product_cache)
            /\ \A k \in 1 .. Len(d.orders) :
                  d.orders[k].customer_id \in PoolOf(last.customer_ids, gen[g]._customer_cache)

\* orders drawn from the cached customers and from a supplied product list
C4_Witness ==
    /\ Returned("generate_orders")
    /\ ~last.customer_ids.given
    /\ last.product_ids.given
    /\ Len(LastValue.orders) = MaxOrders
    /\ Len(LastValue.order_items) > MaxOrders

(***************************************************************************)
(* C5: every dataset returned by generate_all is referentially closed,     *)
(* whatever was called before on the instance: each item's order_id        *)
(* matches exactly one order, each item's product_id exactly one product   *)
(* and each order's customer_id one customer of the dataset.               *)
(***************************************************************************)
C5_DatasetClosed ==
    Returned("generate_all") =>
        LET d == LastValue
        IN  /\ \A k \in 1 .. Len(d.order_items) :
                  /\ CountOf(d.orders, "order_id", d.order_items[k].order_id) = 1
                  /\ CountOf(d.products, "product_id", d.order_items[k].product_id) = 1
            /\ \A k \in 1 .. Len(d.orders) :
                  CountOf(d.customers, "customer_id", d.orders[k].customer_id) >= 1

(***************************************************************************)
(* C6: for every generated order, subtotal is the sum of the line totals   *)
(* of exactly that order's items and total_amount is                       *)
(* subtotal - discount_amount + shipping_cost.                             *)
(***************************************************************************)
C6_MonetaryConsistency ==
    \A g \in Instances :
        LET d == ret[g].value
        IN  \A k \in 1 .. Len(d.orders) :
               /\ d.orders[k].subtotal = SumLineTotals(d.order_items, d.orders[k].order_id)
               /\ d.orders[k].total_amount =
                    d.orders[k].subtotal - d.orders[k].discount_amount
                    + d.orders[k].shipping_cost

\* two orders of one call, both discounted and shipped at a cost
C6_Witness ==
    \E g \in Instances :
        LET d == ret[g].value
        IN  /\ Len(d.orders) >= 2
            /\ Len(d.order_items) > Len(d.orders)
            /\ \E k \in 1 .. Len(d.orders) :
                  /\ d.orders[k].discount_amount > 0
                  /\ d.orders[k].shipping_cost > 0
            /\ d.orders[1].subtotal # d.orders[2].subtotal

(***************************************************************************)
(* C7: generate_customers, generate_products, generate_stores and          *)
(* generate_orders called with a negative count fail before any record is  *)
(* produced; they never return normally.                                   *)
(***************************************************************************)
C7_NegativeCountRaises ==
    (last.op \in SingleGenerators \cup {"generate_orders"} /\ last.count < 0)
        => (last.status # "ok" /\ LastValue = NoData)

(***************************************************************************)
(* C8 as stated: generate_orders raises exactly when no customer is known  *)
(* or no product is known (none supplied and none cached); otherwise it    *)
(* succeeds and returns count orders.                                      *)
(***************************************************************************)
C8_RaisesIffNothingKnown ==
    last.op = "generate_orders" =>
        LET g == last.inst
            customer_known == last.customer_ids.ids # <<>> \/ gen[g]._customer_cache # <<>>
            product_known == last.product_ids.ids # <<>> \/ gen[g]._product_cache # <<>>
        IN  /\ last.status = "ValueError" <=> ~(customer_known /\ product_known)
            /\ last.status = "ok" => Len(LastValue.orders) = last.count

(***************************************************************************)
(* C8 amended: generate_orders raises exactly when the effective customer  *)
(* pool or the effective product pool is empty, the effective pool being   *)
(* the supplied list whenever a list is supplied (an empty supplied list   *)
(* does not fall back to the cache) and the cached identifiers otherwise;  *)
(* otherwise it succeeds and returns count orders (none for a negative     *)
(* count).                                                                 *)
(***************************************************************************)
C8_RaisesIffEffectivePoolEmpty ==
    last.op = "generate_orders" =>
        LET g == last.inst
            customer_pool == PoolOf(last.customer_ids, gen[g]._customer_cache)
            product_pool == PoolOf(last.product_ids, gen[g]._product_cache)
        IN  /\ last.status \in {"ok", "ValueError"}
            /\ last.status = "ValueError" <=> (customer_pool = {} \/ product_pool = {})
            /\ last.status = "ok" => Len(LastValue.orders) = Max(last.count, 0)

\* an empty customer list is supplied while customers are cached: the call raises
C8_Witness ==
    /\ last.op = "generate_orders"
    /\ last.status = "ValueError"
    /\ last.customer_ids = Some(<<>>)
    /\ gen[last.inst]._customer_cache # <<>>
    /\ PoolOf(last.product_ids, gen[last.inst]._product_cache) # {}

(***************************************************************************)
(* C9 as stated: for every config with all counts >= 0 (zero included),    *)
(* generate_all on a new instance returns normally a structure with        *)
(* exactly the five keys, whose customers / products / stores / orders     *)
(* have the configured lengths.                                            *)
(***************************************************************************)
DatasetKeys == {"customers", "products", "stores", "orders", "order_items"}

HasConfiguredLengths(d, config) ==
    /\ DOMAIN d = DatasetKeys
    /\ Len(d.customers) = config.num_customers
    /\ Len(d.products) = config.num_products
    /\ Len(d.stores) = config.num_stores
    /\ Len(d.orders) = config.num_orders

CachesOf(g) == <<gen[g]._customer_cache, gen[g]._product_cache>>

Raised == steps' = steps + 1 /\ last'.status # "ok"

StateKept ==
    /\ random_state' = random_state
    /\ faker_state' = faker_state
    /\ \A g \in Instances : CachesOf(g)' = CachesOf(g)

C10_AllOrNothing == [][Raised => StateKept]_vars

(***************************************************************************)
(* C10 amended: generate_customers, generate_products and generate_stores  *)
(* never raise; whenever generate_orders raises, nothing is returned and   *)
(* the caches and the stream positions are as before the call.             *)
(* generate_all is not all-or-nothing: it raises only from its             *)
(* generate_orders step, after the reseed and the customer, product and    *)
(* store generators have run, so it returns nothing but may leave changed  *)
(* caches and stream positions.                                            *)
(***************************************************************************)
C10_OrdersAllOrNothing ==
    [][ Raised =>
          /\ last'.op \in {"generate_orders", "generate_all"}
          /\ ret'[last'.inst].value = NoData
          /\ last'.op = "generate_orders" => StateKept ]_vars

\* generate_orders has raised on an instance whose caches hold records
C10_Witness ==
    /\ last.op = "generate_orders"
    /\ last.status = "ValueError"
    /\ gen[last.inst]._customer_cache # <<>>
    /\ gen[last.inst]._product_cache # <<>>

(***************************************************************************)
(* C11: generate_all(config) first reseeds the random sources with         *)
(* config.seed, before any record is generated, then runs the customer,    *)
(* product, store and order generators exactly once each in that order;    *)
(* order generation starts only after the customers and the products of    *)
(* the same call have been cached.                                         *)
(***************************************************************************)
IsPrefix(a, b) == Len(a) <= Len(b) /\ a = SubSeq(b, 1, Len(a))

\* every record of recs is the cache's entry under its identifier
AllCached(recs, field, cache) ==
    \A k \in 1 .. Len(recs) :
        DictHas(cache, recs[k][field]) /\ DictGet(cache, recs[k][field]) = recs[k]

C11_GenerateAllOrder ==
    pc # "idle" =>
        /\ IsPrefix(frame.calls, <<"seed", "generate_customers", "generate_products",
                                   "generate_stores", "generate_orders">>)
        /\ frame.calls = <<>> => frame.data = NoData
        /\ frame.calls = <<"seed">> =>
              /\ random_state = SeedState(frame.config.seed)
              /\ faker_state = SeedState(frame.config.seed)
              /\ frame.data = NoData
        /\ pc = "generate_orders" =>
              /\ frame.calls = <<"seed", "generate_customers", "generate_products",
                                 "generate_stores">>
              /\ Len(frame.data.customers) = frame.config.num_customers
              /\ Len(frame.data.products) = frame.config.num_products
              /\ AllCached(frame.data.customers, "customer_id",
                           gen[frame.inst]._customer_cache)
              /\ AllCached(frame.data.products, "product_id",
                           gen[frame.inst]._product_cache)
              /\ frame.data.orders = <<>> /\ frame.data.order_items = <<>>
        /\ pc = "return" =>
              frame.calls = <<"seed", "generate_customers", "generate_products",
                              "generate_stores", "generate_orders">>

\* a call with a seed other than the instance's is about to generate its
\* orders: its customers and products are in the caches
C11_Witness ==
    /\ pc = "generate_orders"
    /\ frame.config.seed # gen[frame.inst].seed
    /\ frame.config.num_orders = MaxOrders
    /\ Len(frame.data.customers) = MaxCount
    /\ Len(frame.data.products) = MaxCount
    /\ now = MaxNow

(***************************************************************************)
(* C12: generate_all called with an identical config (same counts and      *)
(* seed) on two new instances produces identical datasets, in all five     *)
(* entity sequences.                                                       *)
(***************************************************************************)
\* the latest call on g was a generate_all on the new instance that returned
FreshDataset(g) ==
    /\ ret[g].fresh
    /\ ret[g].call.op = "generate_all"
    /\ ret[g].call.status = "ok"

C12_IdenticalConfigIdenticalDatasets ==
    \A g1 \in Instances, g2 \in Instances :
        (FreshDataset(g1) /\ FreshDataset(g2) /\ ret[g1].call.config = ret[g2].call.config)
        => \A key \in DatasetKeys : ret[g1].value[key] = ret[g2].value[key]

(***************************************************************************)
(* C13: for every order returned by generate_orders, the number of order   *)
(* items carrying that order's order_id is at least 1 and at most 10,      *)
(* whatever value the random draw takes.                                   *)
(***************************************************************************)
\* number of items of the k-th order of dataset d
ItemsOfOrder(d, k) == CountOf(d.order_items, "order_id", d.orders[k].order_id)

C13_ItemCountBound ==
    \A g \in Instances :
        \A k \in 1 .. Len(ret[g].value.orders) :
            ItemsOfOrder(ret[g].value, k) \in 1 .. 10

\* an order clamped up to 1 item and an order capped at 10 items have been
\* returned
C13_Witness ==
    /\ \E g \in Instances :
          \E k \in 1 .. Len(ret[g].value.orders) : ItemsOfOrder(ret[g].value, k) = 1
    /\ \E g \in Instances :
          \E k \in 1 .. Len(ret[g].value.orders) : ItemsOfOrder(ret[g].value, k) = 10

(***************************************************************************)
(* C14: the number of items of each order is computed from the configured  *)
(* average: it is max(1, round(g)) clamped to 1 .. 10, where g is drawn    *)
(* with mean config.avg_items_per_order and standard deviation             *)
(* config.avg_items_per_order / 2 and rounded to the nearest integer.      *)
(* Stated for the first order of generate_all, whose draw is the second    *)
(* draw of the order generation.                                           *)
(***************************************************************************)
\* the draw at position s rescaled to mean avg and deviation avg / 2, in
\* halves: avg + (avg / 2) * z, where the draw of the code is 3 + 1.5 * z
GaussAround(s, avg) == 2 * avg + (avg * (Gauss(s) - 6)) \div 3

\* round(x) for x given in halves
RoundOfHalves(h) == IF h <= 0 THEN 0 ELSE RoundHalfEven(h, 2)

ConfiguredNumItems(s, avg) == Min(Max(1, RoundOfHalves(GaussAround(s, avg))), 10)

C14_ItemCountFromConfiguredAverage ==
    [][ (pc = "generate_orders" /\ pc' = "return" /\ frame.config.num_orders > 0)
          => CountOf(frame'.data.order_items, "order_id", OrderId(1))
               = ConfiguredNumItems(Adv(random_state, 2),
                                    frame.config.avg_items_per_order) ]_vars

(***************************************************************************)
(* C15: for every generated product, in every category, unit_cost is at    *)
(* most unit_price after both values have been rounded to 2 decimals.      *)
(***************************************************************************)
\* the products a call returned and the products the caches hold
KnownProducts ==
    UNION {Range(ret[g].value.products) : g \in Instances}
    \cup UNION {{gen[g]._product_cache[k][2] : k \in 1 .. Len(gen[g]._product_cache)}
                : g \in Instances}

C15_CostAtMostPrice ==
    \A p \in KnownProducts :
        /\ p.unit_cost <= p.unit_price
        /\ p.unit_cost % Cent = 0
        /\ p.unit_price % Cent = 0

\* products of two categories with different margins have been generated
C15_Witness ==
    \E p \in KnownProducts, q \in KnownProducts :
        /\ p.category_name = "Beauty"
        /\ q.category_name = "Grocery"
        /\ p.unit_cost < p.unit_price
        /\ q.unit_cost < q.unit_price

(***************************************************************************)
(* C16: for every count n >= 0, generate_customers(n) (likewise            *)
(* generate_products(n), generate_stores(n)) returns exactly n records in  *)
(* order, the i-th (1-based) carrying the identifier made of the entity    *)
(* prefix and i zero-padded to the entity's width; n = 0 returns an empty  *)
(* sequence without error.                                                 *)
(***************************************************************************)
RECURSIVE DecimalValue(_)
\* the number a sequence of decimal digits writes
DecimalValue(ds) ==
    IF ds = <<>> THEN 0
    ELSE 10 * DecimalValue(SubSeq(ds, 1, Len(ds) - 1)) + ds[Len(ds)]

\* id is prefix followed by exactly `width` digits that write n
IsPaddedId(id, prefix, width, n) ==
    /\ Len(id) = width + 1
    /\ id[1] = prefix
    /\ \A k \in 2 .. Len(id) : id[k] \in 0 .. 9
    /\ DecimalValue(Tail(id)) = n

\* the sequence a single-entity generator returns, its key, prefix and width
EntityOf(op) ==
    CASE op = "generate_customers" ->
            [key |-> "customers", field |-> "customer_id", prefix |-> "CUST-", width |-> 8]
      [] op = "generate_products" ->
            [key |-> "products", field |-> "product_id", prefix |-> "SKU-", width |-> 6]
      [] op = "generate_stores" ->
            [key |-> "stores", field |-> "store_id", prefix |-> "STORE-", width |-> 4]

C16_SequentialIdentifiers ==
    (last.op \in SingleGenerators /\ last.count >= 0) =>
        LET e == EntityOf(last.op)
            recs == LastValue[e.key]
        IN  /\ last.status = "ok"
            /\ Len(recs) = last.count
            /\ \A i \in 1 .. Len(recs) : IsPaddedId(recs[i][e.field], e.prefix, e.width, i)
            /\ \A i \in 1 .. Len(recs), j \in 1 .. Len(recs) :
                  i # j => recs[i][e.field] # recs[j][e.field]

\* generate_customers(MaxCount) is the second call on an instance, after a
\* call that cached no product
C16_Witness ==
    /\ last.op = "generate_customers"
    /\ last.count = MaxCount
    /\ Len(LastValue.customers) = MaxCount
    /\ gen[last.inst].calls = 2
    /\ gen[last.inst]._product_cache = <<>>
    /\ gen[last.inst]._customer_cache # <<>>

(***************************************************************************)
(* C17: for every order item whose product_id is in the product cache      *)
(* when the orders are generated, the item's unit_price is that cached     *)
(* product's unit_price at that moment, and a later generate_products call *)
(* on the same instance, which may give the identifier another price,      *)
(* changes neither the unit_price nor the line_total of the items already  *)
(* returned.                                                               *)
(***************************************************************************)
\* this step is an order generation on g that returns
OrdersReturned(g) ==
    /\ steps' = steps + 1
    /\ last'.inst = g
    /\ last'.op \in {"generate_orders", "generate_all"}
    /\ last'.status = "ok"

\* every item of a cached product carries that product's price
PricesFrom(items, product_cache) ==
    \A k \in 1 .. Len(items) :
        DictHas(product_cache, items[k].product_id)
        => items[k].unit_price = DictGet(product_cache, items[k].product_id).unit_price

C17_PriceSnapshot ==
    [][ \A g \in Instances :
          /\ OrdersReturned(g) =>
                /\ held'[g] = ret'[g].value.order_items
                /\ PricesFrom(held'[g], gen'[g]._product_cache)
          /\ ~OrdersReturned(g) =>
                /\ Len(held'[g]) = Len(held[g])
                /\ \A k \in 1 .. Len(held[g]) :
                      /\ held'[g][k].unit_price = held[g][k].unit_price
                      /\ held'[g][k].line_total = held[g][k].line_total ]_vars

\* generate_products has just given another price to a product that an item
\* returned earlier refers to
C17_Witness ==
    /\ Returned("generate_products")
    /\ \E k \in 1 .. Len(held[last.inst]) :
          LET item == held[last.inst][k]
              cache == gen[last.inst]._product_cache
          IN  /\ item.product_id \in FieldSet(LastValue.products, "product_id")
              /\ DictGet(cache, item.product_id).unit_price # item.unit_price

(***************************************************************************)
(* C18 as stated: generate_orders(count=0, customer_ids=[], product_ids=[]) *)
(* returns ([], []) without raising the missing-dependency error.          *)
(***************************************************************************)
ZeroCountNoPools ==
    /\ last.op = "generate_orders"
    /\ last.count = 0
    /\ last.customer_ids = Some(<<>>)
    /\ last.product_ids = Some(<<>>)

C18_ZeroCountReturns ==
    ZeroCountNoPools => (last.status = "ok" /\ LastValue = NoData)

(***************************************************************************)
(* C18 amended: generate_orders checks the pools before it looks at the    *)
(* count, so generate_orders(count=0, customer_ids=[], product_ids=[])     *)
(* raises the missing-dependency ValueError; a zero count returns          *)
(* ([], []) only when both effective pools are non-empty.                  *)
(***************************************************************************)
C18_ZeroCountStillChecksPools ==
    (last.op = "generate_orders" /\ last.count = 0) =>
        LET g == last.inst
            no_pool == \/ PoolOf(last.customer_ids, gen[g]._customer_cache) = {}
                       \/ PoolOf(last.product_ids, gen[g]._product_cache) = {}
        IN  /\ no_pool => last.status = "ValueError"
            /\ ~no_pool => last.status = "ok"
            /\ LastValue.orders = <<>> /\ LastValue.order_items = <<>>

\* generate_orders(0, [], []) has raised on an instance with cached records
C18_Witness ==
    /\ ZeroCountNoPools
    /\ last.status = "ValueError"
    /\ gen[last.inst]._customer_cache # <<>>
    /\ gen[last.inst]._product_cache # <<>>

(***************************************************************************)
(* C19: every ErrorAnalysis returned by LogAnalyzer.analyze has            *)
(* requires_human_approval = True, in every mode: LLM disabled, LLM        *)
(* enabled with a reply that carries requires_human_approval false or      *)
(* omits it, and the fallback taken when the LLM call fails.               *)
(***************************************************************************)
C19_AlwaysRequiresHumanApproval ==
    analysis.path # "none" => analysis.result.requires_human_approval = TRUE

\* the LLM has answered with a valid object that says false
C19_Witness ==
    /\ analysis.path = "llm"
    /\ "requires_human_approval" \in DOMAIN analysis.llm.data
    /\ analysis.llm.data.requires_human_approval = FALSE
    /\ analysis.result.error_type = "DataQuality"
    /\ \E key \in MockKeys : mock_responses[key] # MOCK_RESPONSES[key]

(***************************************************************************)
(* C20: with the LLM disabled, analyze categorises by log content: a log   *)
(* about a missing column or schema is SchemaDrift, a log about a refused  *)
(* connection is ConnectionFailure, and a log reporting null values        *)
(* (containing 'null', 'quality' or 'validation') is DataQuality, also     *)
(* when that log mentions the word 'column' as the log of the test does.   *)
(***************************************************************************)
\* the words the three logs of test_log_analyzer_categorizes_errors are told by
SchemaTestLog == {"Column", "schema"}
ConnectionTestLog == {"Connection", "refused"}
NullTestLog == {"Null", "column"}

C20_CategorisesByContent ==
    analysis.path = "mock" =>
        /\ analysis.log = SchemaTestLog => analysis.result.error_type = "SchemaDrift"
        /\ analysis.log = ConnectionTestLog => analysis.result.error_type = "ConnectionFailure"
        /\ ( /\ {"null", "quality", "validation"} \cap LowerLog(analysis.log) # {}
             /\ LowerLog(analysis.log) \subseteq {"null", "quality", "validation", "column"} )
           => analysis.result.error_type = "DataQuality"

(***************************************************************************)
(* C23: when generate_orders is called without customer_ids (or without    *)
(* product_ids), the pool it draws from is exactly the set of identifiers  *)
(* of the records returned by the most recent generate_customers           *)
(* (respectively generate_products) call on that instance.  Stated for an  *)
(* order generation that directly follows that call.                       *)
(***************************************************************************)
\* this step is generate_orders on the instance whose latest call was op
OrdersAfter(op) ==
    /\ steps' = steps + 1
    /\ last.op = op
    /\ last'.op = "generate_orders"
    /\ last'.inst = last.inst

C23_PoolIsLatestCall ==
    [][ /\ (OrdersAfter("generate_customers") /\ ~last'.customer_ids.given)
           => Range(EffectiveIds(last'.customer_ids, gen[last.inst]._customer_cache))
                = FieldSet(ret[last.inst].value.customers, "customer_id")
        /\ (OrdersAfter("generate_products") /\ ~last'.product_ids.given)
           => Range(EffectiveIds(last'.product_ids, gen[last.inst]._product_cache))
                = FieldSet(ret[last.inst].value.products, "product_id") ]_vars

(***************************************************************************)
(* C24: generate_orders and generate_stores leave both caches unchanged,   *)
(* whether they return or raise; generate_customers changes only the       *)
(* customer cache and generate_products only the product cache.            *)
(***************************************************************************)
\* this step is a call of op
Calls(op) == steps' = steps + 1 /\ last'.op = op

CustomerCaches == [g \in Instances |-> gen[g]._customer_cache]
ProductCaches == [g \in Instances |-> gen[g]._product_cache]

C24_CacheFrame ==
    [][ /\ (Calls("generate_orders") \/ Calls("generate_stores"))
           => (CustomerCaches' = CustomerCaches /\ ProductCaches' = ProductCaches)
        /\ Calls("generate_customers") =>
              /\ ProductCaches' = ProductCaches
              /\ \A g \in Instances :
                    g # last'.inst => CustomerCaches'[g] = CustomerCaches[g]
        /\ Calls("generate_products") =>
              /\ CustomerCaches' = CustomerCaches
              /\ \A g \in Instances :
                    g # last'.inst => ProductCaches'[g] = ProductCaches[g] ]_vars

\* generate_orders has returned items of a supplied product that is not
\* cached, on an instance whose caches hold records
C24_Witness ==
    /\ Returned("generate_orders")
    /\ gen[last.inst]._customer_cache # <<>>
    /\ gen[last.inst]._product_cache # <<>>
    /\ \E k \in 1 .. Len(LastValue.order_items) :
          ~DictHas(gen[last.inst]._product_cache, LastValue.order_items[k].product_id)

(***************************************************************************)
(* C27: two generate_all calls in succession with the same config on the   *)
(* same instance, under a fixed clock, give the same outcome and the same  *)
(* dataset, whatever the instance and the streams were before the first.   *)
(***************************************************************************)
C27_RepeatIdentical ==
    [][ ( /\ last.op = "generate_all"
          /\ Calls("generate_all")
          /\ last'.inst = last.inst
          /\ last'.config = last.config
          /\ ret[last.inst].at = now )
        => ( /\ last'.status = last.status
             /\ ret'[last.inst].value = ret[last.inst].value ) ]_vars

\* a second call in the run has returned a dataset from generate_all on an
\* instance whose caches hold more identifiers than the config asks for, and
\* an order of the dataset refers to such an older customer
C27_Witness ==
    /\ steps = MaxSteps
    /\ Returned("generate_all")
    /\ Len(gen[last.inst]._customer_cache) > last.config.num_customers
    /\ Len(gen[last.inst]._product_cache) > last.config.num_products
    /\ \E k \in 1 .. Len(LastValue.orders) :
          LastValue.orders[k].customer_id
              \notin FieldSet(LastValue.customers, "customer_id")

(***************************************************************************)
(* C28: the customer cache's keys are always the identifiers 1..m, m the   *)
(* largest count requested so far on the instance; the key set never       *)
(* shrinks; a call for n records leaves under the identifiers 1..n exactly *)
(* the records it returned and keeps every other entry.  Likewise for the  *)
(* product cache.                                                          *)
(***************************************************************************)
\* the cache's keys are id(1), ..., id(Len(cache)), in this order
KeysUpTo(cache, id(_)) == \A k \in 1 .. Len(cache) : cache[k][1] = id(k)

\* after a call for count records that returned recs: the cache reaches
\* max(old length, count), holds recs under 1..count and the old entries above
Recached(old, new, count, recs) ==
    /\ Len(new) = Max(Len(old), count)
    /\ \A k \in 1 .. Len(new) :
          new[k][2] = IF k <= count THEN recs[k] ELSE old[k][2]

C28_CacheShape ==
    /\ [](\A g \in Instances :
             /\ KeysUpTo(gen[g]._customer_cache, CustomerId)
             /\ KeysUpTo(gen[g]._product_cache, ProductId))
    /\ [][ /\ \A g \in Instances :
               /\ Len(gen[g]._customer_cache') >= Len(gen[g]._customer_cache)
                    \/ (steps' = steps + 1 /\ last'.op = "__init__" /\ last'.inst = g)
               /\ Len(gen[g]._product_cache') >= Len(gen[g]._product_cache)
                    \/ (steps' = steps + 1 /\ last'.op = "__init__" /\ last'.inst = g)
           /\ Calls("generate_customers") =>
                 Recached(gen[last'.inst]._customer_cache, gen'[last'.inst]._customer_cache,
                          last'.count, ret'[last'.inst].value.customers)
           /\ Calls("generate_products") =>
                 Recached(gen[last'.inst]._product_cache, gen'[last'.inst]._product_cache,
                          last'.count, ret'[last'.inst].value.products) ]_vars

\* a call for fewer customers than the cache already holds has returned
C28_Witness ==
    /\ Returned("generate_customers")
    /\ last.count >= 1
    /\ Len(gen[last.inst]._customer_cache) > last.count

(***************************************************************************)
(* C29: analyze never modifies the MOCK_RESPONSES templates: whatever      *)
(* calls came before, failed LLM calls included, an analysis in mock mode  *)
(* returns the confidence_score and the additional_context of the          *)
(* template of its category as they were at import.                        *)
(***************************************************************************)
C29_TemplatesUntouched ==
    /\ mock_responses = MOCK_RESPONSES
    /\ analysis.path = "mock" =>
          /\ analysis.result.confidence_score
                = MOCK_RESPONSES[MockKey(analysis.log)].confidence_score
          /\ analysis.result.additional_context
                = MOCK_RESPONSES[MockKey(analysis.log)].additional_context

(***************************************************************************)
(* C21: whatever the interleaving of add, get_all, get_by_role and         *)
(* get_by_timerange from several threads, a store holds every metric whose *)
(* add has returned, and every metric it loaded, exactly once; a reader's  *)
(* result is the selection from the list as it is when the reader          *)
(* finishes; while a thread runs _persist on a store no step changes that  *)
(* store's list, and the file it writes is that list.                      *)
(***************************************************************************)
Occurrences(metrics, call_id) ==
    Cardinality({k \in 1 .. Len(metrics) : metrics[k].call_id = call_id})

\* thread t runs the body of a method of store s under `with self._lock`
InBody(t, s) ==
    thread[t].store = s /\ thread[t].pc \in {"append", "persist", "read", "release"}

C21_StoreThreadSafe ==
    /\ [](\A s \in 1 .. Len(stores) :
             /\ \A k \in 1 .. Len(stores[s]._metrics) :
                   Occurrences(stores[s]._metrics, stores[s]._metrics[k].call_id) = 1
             /\ \A r \in recorded :
                   r[1] = s => Occurrences(stores[s]._metrics, r[2]) = 1
             /\ Cardinality({t \in Threads : InBody(t, s)}) <= 1)
    /\ [](\A t \in Threads :
             (thread[t].pc = "release" /\ thread[t].op.name # "add")
                => thread[t].result = Filter(thread[t].op, stores[thread[t].store]._metrics))
    /\ [][ \A t \in Threads :
             thread[t].pc = "persist" =>
                /\ stores'[thread[t].store]._metrics = stores[thread[t].store]._metrics
                /\ thread'[t].pc = "release" =>
                      disk' = [exists |-> TRUE,
                               data |-> [k \in 1 .. Len(stores[thread[t].store]._metrics) |->
                                           to_dict(stores[thread[t].store]._metrics[k])]] ]_vars

\* a thread is in the middle of _persist while another thread waits for the
\* lock of the same store with a metric to add, after an earlier add returned
C21_Witness ==
    \E t, u \in Threads :
        /\ thread[t].pc = "persist"
        /\ thread[t].buf # <<>>
        /\ thread[u].pc = "acquire"
        /\ thread[u].op.name = "add"
        /\ thread[u].store = thread[t].store
        /\ recorded # {}

(***************************************************************************)
(* C26: get_metrics_store returns one and the same store to every caller,  *)
(* also when the first calls come from several threads at once, and every  *)
(* metric recorded is in the store the module-level singleton refers to.   *)
(***************************************************************************)
C26_OneStore ==
    /\ Cardinality(returned) <= 1
    /\ \A r \in recorded : r[1] = _metrics_store

(***************************************************************************)
(* C22: after ingest_order_items with validate_orders=True, in mock mode   *)
(* and against the database, an input item whose order_id has no order is  *)
(* among the rows the call wrote to order_items_quarantine and not among   *)
(* those it wrote to order_items, and every other input item is among the  *)
(* rows written to order_items and not in the quarantine.                  *)
(***************************************************************************)
\* the call wrote a row with the item's key to the table
WroteTo(name, item) ==
    \E k \in 1 .. Len(tables[name].rows) :
        /\ tables[name].rows[k].order_item_id = item.order_item_id
        /\ tables[name].rows[k]._batch_id \in outcome.batch_ids

C22_OrphansQuarantined ==
    (outcome.op = "ingest_order_items" /\ outcome.validate_orders /\ outcome.status = "ok")
    => \A k \in 1 .. Len(outcome.df.rows) :
          LET item == outcome.df.rows[k]
          IN  IF item.order_id \in outcome.orders
              THEN WroteTo("order_items", item) /\ ~WroteTo("order_items_quarantine", item)
              ELSE ~WroteTo("order_items", item) /\ WroteTo("order_items_quarantine", item)

(***************************************************************************)
(* C25: write validates before it writes.  When expected_schema is given   *)
(* and the DataFrame lacks one of its columns, write raises                *)
(* SchemaValidationError and the tables are as before, in every mode;      *)
(* otherwise, with or without columns beyond the expected ones, it does    *)
(* not raise and the table holds the rows of the batch.                    *)
(***************************************************************************)
\* this step is a direct call of write
Writes == batches' = batches + 1 /\ outcome'.op = "write"

LacksExpected(call) ==
    call.expected_schema.given /\ call.expected_schema.fields \ call.df.columns # {}

C30_EntriesCarryContextId ==
    \A k \in 1 .. Len(entries) :
        entries[k].depth > 0 => entries[k].correlation_id = entries[k].entered_with

====
